---- MODULE Spec2Model ----
(***************************************************************************)
(* Model of the security and integrity core of prompt-pack's API:          *)
(*   - the export-job queue   (apps/api/internal/auditzip/queue.go)        *)
(*   - the API-key store, the auth gate and the auth audit journal         *)
(*     (apps/api/internal/auth/store.go, middleware.go)                    *)
(* Each subsystem has its own specification over the shared variables.     *)
(***************************************************************************)
EXTENDS Integers, Sequences, FiniteSets, TLC

(***************************************************************************)
(* Export-job queue: configuration and input domains                       *)
(***************************************************************************)

\* cfg.MaxQueueDepth, cfg.MaxConcurrentJobs, cfg.MaxRetries (small values)
MaxQueueDepth == 2
MaxConcurrentJobs == 1
MaxRetries == 2

\* config.go: the lifetime of a signed download URL and the retention of the
\* stored artifacts, in ticks of the clock
SignURLTTL == 1
RetentionPeriod == 2

\* a nil *time.Time
NoTime == -1

\* bound on the number of jobs ever created (uuid.New() is drawn MaxJobs times)
MaxJobs == 2

Tenants == {"t1", "t2"}

\* the (tenantID, idempotencyKey, criteriaHash) triples submitted to Enqueue: a repeat,
\* the same key with another body, another key with the same body, another tenant
EnqueueInputs ==
  {<<"t1", "k1", "h1">>, <<"t1", "k1", "h2">>, <<"t1", "k2", "h1">>, <<"t2", "k1", "h1">>}

\* status values of AuditZipJob
Queued == "queued"
Running == "running"
Succeeded == "succeeded"
Failed == "failed"
Canceled == "canceled"

VARIABLES
  jobs,         \* q.jobs: jobId -> jobState (job fields, tenantID, criteriaHash, idempotencyKey)
  byKey,        \* q.byKey: "tenant:idempotencyKey" -> jobId
  byCriteria,   \* q.byCriteria: "tenant:criteriaHash" -> jobId
  workerSlots,  \* number of tokens held in the q.workerSlots channel
  worker,       \* per job: the position of its runJob goroutine and its attempt counter
  ctxDone,      \* per job: whether jobCtx has been canceled (state.cancel() was called)
  objects,      \* storage: per job, the set of artifacts PutObject has stored
  resp          \* the value returned by the last Enqueue / Cancel call

qvars == <<jobs, byKey, byCriteria, workerSlots, worker, ctxDone, objects, resp>>

\* the state of the API-key store, the auth gate and its audit journal
VARIABLES
  now,          \* time.Now()
  tenants,      \* s.tenants: tenantID -> Tenant.Status
  keys,         \* s.keys: keyID -> APIKey; the raw secret of key i is the number i;
                \* revokedAt is TRUE for a non-nil RevokedAt
  entries,      \* r.entries: tenantID -> the AuditLogEntry list of the tenant
  nextId,       \* number of ids generateID() has drawn for audit entries
  req,          \* per request handler: its position in Middleware and its locals
  audit,        \* Middleware's audit argument: TRUE for a recorder, FALSE for nil
  revokedOnce,  \* history: the keys on which RevokeKey has completed
  expiredOnce   \* history: the keys that have been expired at some moment

avars == <<now, tenants, keys, entries, nextId, req, audit, revokedOnce, expiredOnce>>

VARIABLES
  maxDepth,     \* cfg.MaxQueueDepth of the running service
  gc,           \* per job: the deadlines of the retention goroutines that
                \* persistArtifacts has started and that have not ended
  writtenAt,    \* history: per job, the time of its latest successful PutObject
  got,          \* what the last GetAuditZipJob call answered
  auditLog,     \* MemoryAuditRecorder.byTenant: tenantID -> the AuditLog list
  hasRecorder   \* Service.audit: TRUE for a MemoryAuditRecorder, FALSE for nil

svars == <<maxDepth, gc, writtenAt, got, auditLog, hasRecorder>>

\* the calls of the functions that keep no state
VARIABLES
  arg,          \* the arguments of the call
  out           \* what the call returned, NoOut before it

fvars == <<arg, out>>

\* the rate limiter of the auth package
VARIABLES
  limiter,      \* the RateLimiter: rate, window and, per key, its tokenBucket
  allowed,      \* what the last Allow call returned, and for which key
  allowHist,    \* history: per key, the Allow calls since its bucket was created
                \* (counted up to MaxRate + 2), whether one of them refilled it, and
                \* the times of those that were admitted
  lastReset     \* history: the key and the time of the last Reset call, if the bucket
                \* it deleted had admitted a call at that very time

lvars == <<limiter, allowed, allowHist, lastReset>>

\* the configuration of the auth gate and the handler of POST /auth/tenants
VARIABLES
  enableAuditLog, \* cfg.EnableAuditLog
  onboard         \* Handler.CreateTenant: its position, the id asked for, its answer

gvars == <<enableAuditLog, onboard>>

\* the last-used bookkeeping of the auth gate
VARIABLES
  lastUsed,     \* per key: APIKey.LastUsedAt, NoTime for nil
  bg,           \* per key: the detached goroutines of Middleware lines 104-113 that
                \* have been started and have not run yet
  errLog        \* the number of lines those goroutines have logged at error level

uvars == <<lastUsed, bg, errLog>>

ovars == <<fvars, lvars, gvars, uvars>>

\* no call of a stateless function is under way
NoArg == [fn |-> "none"]

NoOut == [fn |-> "none"]

\* the keys Allow is called with
LimiterKeys == {"k1", "k2"}

MaxRate == 3

MaxWindow == 3

NoBucket == [exists |-> FALSE, tokens |-> 0, lastFill |-> 0]

\* NewRateLimiter(ratePerWindow, window); durations count the units of time.Duration
NewRateLimiter(ratePerWindow, window) ==
  [rate |-> ratePerWindow, window |-> window, buckets |-> [k \in LimiterKeys |-> NoBucket]]

NoAllowed == [key |-> "", ok |-> TRUE, retryAfter |-> 0]

NoCalls == [calls |-> 0, refilled |-> FALSE, admitted |-> <<>>]

NoReset == [key |-> "", at |-> -1]

\* a limiter nobody has called yet
LimiterInit(ratePerWindow, window) ==
  /\ limiter = NewRateLimiter(ratePerWindow, window)
  /\ allowed = NoAllowed
  /\ allowHist = [k \in LimiterKeys |-> NoCalls]
  /\ lastReset = NoReset

\* Handler.CreateTenant has not been called
NoOnboarding == [pc |-> "idle", id |-> "", status |-> 0]

JobIds == 1..MaxJobs

isTerminal(status) == status = Succeeded \/ status = Failed \/ status = Canceled

minInt(a, b) == IF a < b THEN a ELSE b

\* fmt.Sprintf("%s:%s", tenantID, idempotencyKey) and the same for criteriaHash
IndexKey(tenantID, part) == tenantID \o ":" \o part

activeCountLocked == Cardinality({j \in DOMAIN jobs : ~isTerminal(jobs[j].status)})

NoResp ==
  [op |-> "none", tenant |-> "", idem |-> "", hash |-> "", kind |-> "none", jobId |-> 0,
   status |-> "nil"]

QueueInit ==
  /\ jobs = <<>>
  /\ byKey = <<>>
  /\ byCriteria = <<>>
  /\ workerSlots = 0
  /\ worker = <<>>
  /\ ctxDone = <<>>
  /\ objects = <<>>
  /\ resp = NoResp

\* the answer of a GetAuditZipJob call: kind "job" carries the fields of the job
NoGot ==
  [op |-> "none", tenant |-> "nil", jobId |-> 0, kind |-> "none", status |-> "nil",
   result |-> "nil", expiresAt |-> NoTime, at |-> NoTime]

\* service.go NewService(queue, audit, ...) over NewJobQueue, with cfg.MaxQueueDepth =
\* depth and audit nil or a fresh MemoryAuditRecorder
ServiceInit(depth, rec) ==
  /\ maxDepth = depth
  /\ hasRecorder = rec
  /\ gc = [j \in JobIds |-> {}]
  /\ writtenAt = [j \in JobIds |-> NoTime]
  /\ got = NoGot
  /\ auditLog = [t \in Tenants |-> <<>>]

\* what Enqueue returns: kind "ok" carries cloneJob(job) (its id and status), a
\* ConflictErr carries the reason and the existing job's id
EnqueueResp(t, k, h, kind, id, status) ==
  [op |-> "enqueue", tenant |-> t, idem |-> k, hash |-> h, kind |-> kind, jobId |-> id,
   status |-> status]

\* the job record Enqueue creates
NewJob(t, k, h) ==
  [status |-> Queued, progress |-> 0, retryCount |-> 0, canCancel |-> FALSE,
   startedAt |-> FALSE, finishedAt |-> FALSE, result |-> "nil", expiresAt |-> NoTime,
   error |-> "nil",
   tenantID |-> t, criteriaHash |-> h, idempotencyKey |-> k]

\* a queue that takes any number of jobs
queueFullNever == FALSE

\* line 71: the queue-depth check
queueFull == maxDepth > 0 /\ activeCountLocked >= maxDepth

\* line 78: existing, ok := q.byKey[key]
byKeyMiss(key) == FALSE

\* a lookup that forgets the idempotency keys of terminal jobs
byKeyHitWhileActive(key) == key \in DOMAIN byKey /\ ~isTerminal(jobs[byKey[key]].status)
byKeyHit(key) == key \in DOMAIN byKey

\* line 79: the replay test on the job found under the idempotency key
sameRequestAlways(existing, t, h) == TRUE
sameRequest(existing, t, h) == existing.criteriaHash = h /\ existing.tenantID = t

\* line 85: a non-terminal job is registered under the criteria key
criteriaBusyNever(criteriaKey) == FALSE

\* a test that lets a terminal job block its criteria as well
criteriaBusyForever(criteriaKey) == criteriaKey \in DOMAIN byCriteria
criteriaBusy(criteriaKey) ==
  criteriaKey \in DOMAIN byCriteria /\ ~isTerminal(jobs[byCriteria[criteriaKey]].status)

\* JobQueue.Enqueue: the whole call runs under q.mu
JobQueueEnqueue(t, k, h) ==
  LET key == IndexKey(t, k)
      criteriaKey == IndexKey(t, h)
  IN
  IF queueFull
  THEN /\ resp' = EnqueueResp(t, k, h, "rate-limited", 0, "nil")
       /\ UNCHANGED <<jobs, byKey, byCriteria, workerSlots, worker, ctxDone, objects>>
  ELSE IF byKeyHit(key)
  THEN /\ resp' = IF sameRequest(jobs[byKey[key]], t, h)
                  THEN EnqueueResp(t, k, h, "ok", byKey[key], jobs[byKey[key]].status)
                  ELSE EnqueueResp(t, k, h, "idempotency-body-mismatch", byKey[key], "nil")
       /\ UNCHANGED <<jobs, byKey, byCriteria, workerSlots, worker, ctxDone, objects>>
  ELSE IF criteriaBusy(criteriaKey)
  THEN /\ resp' = EnqueueResp(t, k, h, "duplicate-job", byCriteria[criteriaKey], "nil")
       /\ UNCHANGED <<jobs, byKey, byCriteria, workerSlots, worker, ctxDone, objects>>
  ELSE LET jobID == Len(jobs) + 1 IN
       /\ jobID <= MaxJobs
       /\ jobs' = Append(jobs, NewJob(t, k, h))
       /\ byKey' = (key :> jobID) @@ byKey
       /\ byCriteria' = (criteriaKey :> jobID) @@ byCriteria
       /\ worker' = Append(worker, [pc |-> "slot", attempt |-> 0, expiry |-> NoTime])
       /\ ctxDone' = Append(ctxDone, FALSE)
       /\ objects' = Append(objects, {})
       /\ resp' = EnqueueResp(t, k, h, "ok", jobID, Queued)
       /\ UNCHANGED workerSlots

\* Enqueue called on the queue
Enqueue(t, k, h) ==
  /\ UNCHANGED <<avars, svars, ovars>>
  /\ JobQueueEnqueue(t, k, h)

\* what Cancel returns: kinds "canceled" and "not-cancelable" carry cloneJob(state.job)
CancelResp(t, id, kind, status) ==
  [op |-> "cancel", tenant |-> t, idem |-> "", hash |-> "", kind |-> kind, jobId |-> id,
   status |-> status]

\* a Cancel that refuses terminal jobs only
notCancelableTerminalOnly(job) == isTerminal(job.status)

\* JobQueue.Cancel line 127: only a running job can be canceled
notCancelableNever(job) == FALSE

notCancelable(job) == job.status # Running

\* JobQueue.Cancel: the whole call runs under q.mu
JobQueueCancel(t, jobID) ==
  /\ IF jobID \notin DOMAIN jobs
     THEN /\ resp' = CancelResp(t, jobID, "not-found", "nil")
          /\ UNCHANGED <<jobs, byKey, byCriteria, workerSlots, worker, ctxDone, objects>>
     ELSE IF jobs[jobID].tenantID # t
     THEN /\ resp' = CancelResp(t, jobID, "not-found", "nil")
          /\ UNCHANGED <<jobs, byKey, byCriteria, workerSlots, worker, ctxDone, objects>>
     ELSE IF notCancelable(jobs[jobID])
     THEN /\ resp' = CancelResp(t, jobID, "not-cancelable", jobs[jobID].status)
          /\ UNCHANGED <<jobs, byKey, byCriteria, workerSlots, worker, ctxDone, objects>>
     ELSE /\ ctxDone' = [ctxDone EXCEPT ![jobID] = TRUE]
          /\ jobs' = [jobs EXCEPT ![jobID] =
                        [@ EXCEPT !.status = Canceled, !.finishedAt = TRUE,
                                  !.progress = minInt(100, @), !.error = "CANCELED",
                                  !.canCancel = FALSE, !.result = "nil",
                                  !.expiresAt = NoTime]]
          /\ resp' = CancelResp(t, jobID, "canceled", Canceled)
          /\ UNCHANGED <<byKey, byCriteria, workerSlots, worker, objects>>

\* Cancel called on the queue
Cancel(t, jobID) ==
  /\ UNCHANGED <<avars, svars, ovars>>
  /\ JobQueueCancel(t, jobID)

(***************************************************************************)
(* The worker goroutine of a job (runJob / processJob).  Every step that   *)
(* takes q.mu, every storage call and every select is one action.          *)
(***************************************************************************)

\* runJob returns: the deferred <-q.workerSlots releases the slot
WorkerExit(j) ==
  /\ worker' = [worker EXCEPT ![j].pc = "done"]
  /\ workerSlots' = workerSlots - 1

\* q.workerSlots <- struct{}{} : blocks while all slots are taken
AcquireSlot(j) ==
  /\ UNCHANGED <<avars, svars, ovars>>
  /\ j \in DOMAIN jobs
  /\ worker[j].pc = "slot"
  /\ workerSlots < MaxConcurrentJobs
  /\ workerSlots' = workerSlots + 1
  /\ worker' = [worker EXCEPT ![j].pc = "start"]
  /\ UNCHANGED <<jobs, byKey, byCriteria, ctxDone, objects, resp>>

\* updateStatus(jobID, status, mutate): sets the status unconditionally, then mutates;
\* mutate is given as the fields it writes
updateStatus(j, status, mutate) ==
  jobs' = [jobs EXCEPT ![j] = mutate @@ [@ EXCEPT !.status = status]]

StartMutate == [startedAt |-> TRUE, canCancel |-> TRUE, progress |-> 5]

\* runJob, lines 157-163: transition to running
StartJob(j) ==
  /\ UNCHANGED <<avars, svars, ovars>>
  /\ j \in DOMAIN jobs
  /\ worker[j].pc = "start"
  /\ updateStatus(j, Running, StartMutate)
  /\ worker' = [worker EXCEPT ![j].pc = "retry"]
  /\ UNCHANGED <<byKey, byCriteria, workerSlots, ctxDone, objects, resp>>

\* setRetryCount(jobID, retries): updateStatus(jobID, Running, ...)
setRetryCount(j, retries) ==
  updateStatus(j, Running, [retryCount |-> retries])

\* runJob, lines 167-168: attempt++ ; setRetryCount(attempt-1)
BeginAttempt(j) ==
  /\ UNCHANGED <<avars, svars, ovars>>
  /\ j \in DOMAIN jobs
  /\ worker[j].pc = "retry"
  /\ setRetryCount(j, worker[j].attempt)
  /\ worker' = [worker EXCEPT ![j].pc = "bump10", ![j].attempt = @ + 1]
  /\ UNCHANGED <<byKey, byCriteria, workerSlots, ctxDone, objects, resp>>

\* bumpProgress reports context.Canceled when the job is canceled
bumpCanceled(job) == job.status = Canceled

raisedAlways(current, progress) == progress

\* bumpProgress, lines 291-293: the progress is written only when it is greater
raised(current, progress) == IF progress > current THEN progress ELSE current

\* bumpProgress(jobID, progress) followed by what processJob / runJob do with its result
BumpProgress(j, at, progress, next) ==
  /\ UNCHANGED <<avars, svars, ovars>>
  /\ j \in DOMAIN jobs
  /\ worker[j].pc = at
  /\ IF bumpCanceled(jobs[j])
     THEN /\ WorkerExit(j)
          /\ UNCHANGED jobs
     ELSE /\ jobs' = [jobs EXCEPT ![j].progress = raised(@, progress)]
          /\ worker' = [worker EXCEPT ![j].pc = next]
          /\ UNCHANGED workerSlots
  /\ UNCHANGED <<byKey, byCriteria, ctxDone, objects, resp>>

\* processJob, lines 193-197: select on ctx.Done() and time.After(1s)
WaitTimer(j) ==
  /\ UNCHANGED <<avars, svars, ovars>>
  /\ j \in DOMAIN jobs
  /\ worker[j].pc = "wait"
  /\ worker' = [worker EXCEPT ![j].pc = "bump50"]
  /\ UNCHANGED <<jobs, byKey, byCriteria, workerSlots, ctxDone, objects, resp>>

WaitCanceled(j) ==
  /\ UNCHANGED <<avars, svars, ovars>>
  /\ j \in DOMAIN jobs
  /\ worker[j].pc = "wait"
  /\ ctxDone[j]
  /\ WorkerExit(j)
  /\ UNCHANGED <<jobs, byKey, byCriteria, ctxDone, objects, resp>>

\* runJob, lines 176-185 after a non-cancellation error of processJob
AfterError(j) ==
  worker' = [worker EXCEPT ![j].pc = IF worker[j].attempt >= MaxRetries THEN "fail" ELSE "backoff"]

Artifacts == <<"archive.zip", "index.json", "hashes.txt">>

PutPc(n) == IF n = 1 THEN "put1" ELSE IF n = 2 THEN "put2" ELSE "put3"

\* persistArtifacts: the n-th storage.PutObject(ctx, ...).  A canceled ctx makes the
\* call return ctx.Err(); otherwise the store accepts the object or fails.
PutObject(j, n) ==
  /\ UNCHANGED <<avars, ovars, maxDepth, got, auditLog, hasRecorder>>
  /\ j \in DOMAIN jobs
  /\ worker[j].pc = PutPc(n)
  /\ IF ctxDone[j]
     THEN /\ WorkerExit(j)
          /\ UNCHANGED <<objects, gc, writtenAt>>
     ELSE \/ /\ objects' = [objects EXCEPT ![j] = @ \cup {Artifacts[n]}]
             /\ writtenAt' = [writtenAt EXCEPT ![j] = now]
             /\ gc' = IF n < 3 THEN gc
                      ELSE [gc EXCEPT ![j] = @ \cup {now + RetentionPeriod}]
             /\ worker' = [worker EXCEPT ![j].pc = IF n < 3 THEN PutPc(n + 1) ELSE "bump90"]
             /\ UNCHANGED workerSlots
          \/ /\ AfterError(j)
             /\ UNCHANGED <<objects, workerSlots, gc, writtenAt>>
  /\ UNCHANGED <<jobs, byKey, byCriteria, ctxDone, resp>>

\* processJob, lines 212-216: storage.GetSignedURL
GetSignedURL(j) ==
  /\ UNCHANGED <<avars, svars, ovars>>
  /\ j \in DOMAIN jobs
  /\ worker[j].pc = "sign"
  /\ \/ /\ "archive.zip" \in objects[j]
        /\ worker' = [worker EXCEPT ![j].pc = "complete", ![j].expiry = now + SignURLTTL]
     \/ AfterError(j)
  /\ UNCHANGED <<jobs, byKey, byCriteria, workerSlots, ctxDone, objects, resp>>

CompleteMutate(expiry) ==
  [finishedAt |-> TRUE, progress |-> 100, result |-> "signed-url", expiresAt |-> expiry,
   canCancel |-> FALSE, error |-> "nil"]

\* completeJob, then processJob and runJob return
CompleteJob(j) ==
  /\ UNCHANGED <<avars, svars, ovars>>
  /\ j \in DOMAIN jobs
  /\ worker[j].pc = "complete"
  /\ updateStatus(j, Succeeded, CompleteMutate(worker[j].expiry))
  /\ WorkerExit(j)
  /\ UNCHANGED <<byKey, byCriteria, ctxDone, objects, resp>>

FailMutate ==
  [finishedAt |-> TRUE, canCancel |-> FALSE, result |-> "nil", expiresAt |-> NoTime,
   error |-> "INTERNAL_ERROR"]

\* failJob, then runJob returns
FailJob(j) ==
  /\ UNCHANGED <<avars, svars, ovars>>
  /\ j \in DOMAIN jobs
  /\ worker[j].pc = "fail"
  /\ updateStatus(j, Failed, FailMutate)
  /\ WorkerExit(j)
  /\ UNCHANGED <<byKey, byCriteria, ctxDone, objects, resp>>

\* runJob, lines 181-185: select on time.After(backoff) and ctx.Done().  The select
\* first looks at both channels: the timer may have run out already, ctx may be done
BackoffTimer(j) ==
  /\ UNCHANGED <<avars, svars, ovars>>
  /\ j \in DOMAIN jobs
  /\ worker[j].pc = "backoff"
  /\ worker' = [worker EXCEPT ![j].pc = "retry"]
  /\ UNCHANGED <<jobs, byKey, byCriteria, workerSlots, ctxDone, objects, resp>>

BackoffCanceled(j) ==
  /\ UNCHANGED <<avars, svars, ovars>>
  /\ j \in DOMAIN jobs
  /\ worker[j].pc = "backoff"
  /\ ctxDone[j]
  /\ WorkerExit(j)
  /\ UNCHANGED <<jobs, byKey, byCriteria, ctxDone, objects, resp>>

\* the select finds neither channel ready: the worker blocks on both
BackoffBlock(j) ==
  /\ UNCHANGED <<avars, svars, ovars>>
  /\ j \in DOMAIN jobs
  /\ worker[j].pc = "backoff"
  /\ ~ctxDone[j]
  /\ worker' = [worker EXCEPT ![j].pc = "backoffWait"]
  /\ UNCHANGED <<jobs, byKey, byCriteria, workerSlots, ctxDone, objects, resp>>

\* a worker that sleeps through its backoff whatever happens to ctx
timerWakesAlways(j) == TRUE

\* a blocked select is woken by the first of its channels to become ready: by the
\* timer only while ctx.Done() is still open
timerWakes(j) == ~ctxDone[j]

\* the timer fires on the blocked worker: the loop goes on with the next attempt
BackoffElapsed(j) ==
  /\ UNCHANGED <<avars, svars, ovars>>
  /\ j \in DOMAIN jobs
  /\ worker[j].pc = "backoffWait"
  /\ timerWakes(j)
  /\ worker' = [worker EXCEPT ![j].pc = "retry"]
  /\ UNCHANGED <<jobs, byKey, byCriteria, workerSlots, ctxDone, objects, resp>>

\* ctx.Done() is closed on the blocked worker: runJob returns
BackoffAborted(j) ==
  /\ UNCHANGED <<avars, svars, ovars>>
  /\ j \in DOMAIN jobs
  /\ worker[j].pc = "backoffWait"
  /\ ctxDone[j]
  /\ WorkerExit(j)
  /\ UNCHANGED <<jobs, byKey, byCriteria, ctxDone, objects, resp>>

WorkerStep(j) ==
  \/ AcquireSlot(j)
  \/ StartJob(j)
  \/ BeginAttempt(j)
  \/ BumpProgress(j, "bump10", 10, "wait")
  \/ WaitTimer(j)
  \/ WaitCanceled(j)
  \/ BumpProgress(j, "bump50", 50, "put1")
  \/ \E n \in 1..3 : PutObject(j, n)
  \/ BumpProgress(j, "bump90", 90, "sign")
  \/ GetSignedURL(j)
  \/ CompleteJob(j)
  \/ FailJob(j)
  \/ BackoffTimer(j)
  \/ BackoffCanceled(j)
  \/ BackoffBlock(j)
  \/ BackoffElapsed(j)
  \/ BackoffAborted(j)

QNext ==
  \/ \E in \in EnqueueInputs : Enqueue(in[1], in[2], in[3])
  \/ \E t \in Tenants, id \in JobIds : Cancel(t, id)
  \/ \E j \in JobIds : WorkerStep(j)

(***************************************************************************)
(* API-key store, auth gate and auth audit journal                         *)
(***************************************************************************)

\* cfg.KeyRotationWindow, in clock ticks
KeyRotationWindow == 1

\* bounds: the clock, the keys ever created, the audit entries ever built, and the
\* requests the gate serves at the same time
MaxTime == 3
MaxKeys == 2
MaxEntries == 3
MaxInFlight == 2

AuthTenants == {"ta", "tb"}
KeyInputs == {<<"ta", {"*"}>>, <<"tb", {"audit:read"}>>}
Reqs == 1..MaxInFlight


\* status 200 stands for "the gate admits the request": next.ServeHTTP is invoked once
\* the audit entry of the success has been recorded.  raw is the credential presented
\* (0 for none), corrID the correlation id of Middleware line 39-42; suspended is
\* history: the tenant was not active when the request arrived and has not been set
\* active since
IdleReq ==
  [pc |-> "idle", tenantID |-> "", keyID |-> 0, action |-> "", entryId |-> "",
   ts |-> 0, prevHash |-> "", status |-> 0, code |-> "", scopes |-> {}, t0 |-> 0,
   lateRevoked |-> FALSE, lateExpired |-> FALSE, raw |-> 0, corrID |-> "",
   suspended |-> FALSE]

AuthInit(recorder) ==
  /\ audit = recorder
  /\ now = 0
  /\ tenants = <<>>
  /\ keys = <<>>
  /\ entries = [t \in AuthTenants \cup {""} |-> <<>>]
  /\ nextId = 0
  /\ req = [r \in Reqs |-> IdleReq]
  /\ revokedOnce = {}
  /\ expiredOnce = {}

\* an expiry test that comes after the revocation test
gateExpiredUnlessRevoked(key, t) ==
  /\ key.expiresAt # NoTime /\ t > key.expiresAt
  /\ (key.rotated => key.expiresAt < t - KeyRotationWindow)
  /\ ~key.revokedAt

\* middleware.go lines 72-86: the gate's expiry test on a key, at time t
gateExpired(key, t) ==
  /\ key.expiresAt # NoTime /\ t > key.expiresAt
  /\ (key.rotated => key.expiresAt < t - KeyRotationWindow)

ExpiredKeys(ks, t) == {k \in DOMAIN ks : gateExpired(ks[k], t)}

\* the clock advances
Tick ==
  /\ UNCHANGED <<qvars, svars, ovars>>
  /\ now < MaxTime
  /\ now' = now + 1
  /\ expiredOnce' = expiredOnce \cup ExpiredKeys(keys, now + 1)
  /\ UNCHANGED <<tenants, keys, entries, nextId, req, audit, revokedOnce>>

\* InMemoryAPIKeyStore.CreateTenant (the caller passes Status "active")
CreateTenant(t) ==
  /\ UNCHANGED <<qvars, svars, ovars>>
  /\ t \notin DOMAIN tenants
  /\ tenants' = (t :> "active") @@ tenants
  /\ UNCHANGED <<now, keys, entries, nextId, req, audit, revokedOnce, expiredOnce>>

\* InMemoryAPIKeyStore.UpdateTenantStatus
UpdateTenantStatus(t, status) ==
  /\ UNCHANGED <<qvars, svars, ovars>>
  /\ t \in DOMAIN tenants
  /\ tenants' = [tenants EXCEPT ![t] = status]
  /\ req' = [r \in Reqs |->
               IF req[r].tenantID = t /\ status = "active"
               THEN [req[r] EXCEPT !.suspended = FALSE]
               ELSE req[r]]
  /\ UNCHANGED <<now, keys, entries, nextId, audit, revokedOnce, expiredOnce>>

\* CreateKey, lines 72-81: the APIKey stored
NewAPIKey(t, scopes, expiresAt) ==
  [tenantID |-> t, scopes |-> scopes, expiresAt |-> expiresAt,
   revokedAt |-> FALSE, rotated |-> FALSE, rotatedFrom |-> 0]

\* InMemoryAPIKeyStore.CreateKey
CreateKey(t, scopes, expiresAt) ==
  /\ UNCHANGED <<qvars, svars, ovars>>
  /\ t \in DOMAIN tenants
  /\ Len(keys) < MaxKeys
  /\ keys' = Append(keys, NewAPIKey(t, scopes, expiresAt))
  /\ expiredOnce' = expiredOnce \cup ExpiredKeys(keys', now)
  /\ UNCHANGED <<now, tenants, entries, nextId, req, audit, revokedOnce>>

\* store.go lines 101-103: a revoked key cannot be rotated
rotateRefused(oldKey) == oldKey.revokedAt

\* store.go lines 120-122: what RotateKey writes on the old key
markRotated(oldKey, t) ==
  [oldKey EXCEPT !.rotated = TRUE, !.expiresAt = t + KeyRotationWindow]

\* InMemoryAPIKeyStore.RotateKey
RotateKey(oldKeyID) ==
  /\ UNCHANGED <<qvars, svars, ovars>>
  /\ oldKeyID \in DOMAIN keys
  /\ ~rotateRefused(keys[oldKeyID])
  /\ Len(keys) < MaxKeys
  /\ keys' = Append([keys EXCEPT ![oldKeyID] = markRotated(@, now)],
                    [tenantID |-> keys[oldKeyID].tenantID, scopes |-> keys[oldKeyID].scopes,
                     expiresAt |-> NoTime, revokedAt |-> FALSE, rotated |-> FALSE,
                     rotatedFrom |-> oldKeyID])
  /\ UNCHANGED <<now, tenants, entries, nextId, req, audit, revokedOnce, expiredOnce>>

\* InMemoryAPIKeyStore.RevokeKey
RevokeKey(keyID) ==
  /\ UNCHANGED <<qvars, svars, ovars>>
  /\ keyID \in DOMAIN keys
  /\ keys' = [keys EXCEPT ![keyID].revokedAt = TRUE]
  /\ revokedOnce' = revokedOnce \cup {keyID}
  /\ UNCHANGED <<now, tenants, entries, nextId, req, audit, expiredOnce>>

(***************************************************************************)
(* Middleware: one request handler r.  ValidateKey runs under the store's  *)
(* lock; the tenant and key it returns are read afterwards without it, so  *)
(* each check is a step of its own.  Last and Record each take the         *)
(* journal's lock for the length of the call.                              *)
(***************************************************************************)

\* hash.go ComputeAuditHash: SHA-256 over prevHash followed by data
ComputeAuditHash(prevHash, data) == "sha256(" \o prevHash \o data \o ")"

\* middleware.go lines 241 / 269: the hashed payload of an entry
AuditData(id, tenantID, action, ts, prevHash) ==
  id \o "|" \o tenantID \o "|" \o action \o "|" \o ToString(ts) \o "|" \o prevHash

\* generateID(): a fresh id
NewEntryId == "e" \o ToString(nextId + 1)

\* requests that will still build an audit entry
Unbuilt == {r \in Reqs : req[r].pc \in {"checkTenant", "checkExpiry", "checkRevoked"}}

recordsFailureIfEnabled == enableAuditLog /\ audit

\* recordAuthFailure, lines 219-221: nothing is recorded without a recorder
recordsFailure == audit

\* writeAuthError followed by the first lines of recordAuthFailure: with a recorder the
\* entry is built (id, timestamp), and for a known tenant the chain's last entry is read
\* next; with a nil recorder the handler returns
Reject(r, locals, status, code, tenantID, action) ==
  IF recordsFailure
  THEN /\ req' = [req EXCEPT ![r] =
                    [locals EXCEPT !.pc = IF tenantID # "" THEN "last" ELSE "record",
                              !.status = status, !.code = code,
                              !.tenantID = tenantID, !.action = action,
                              !.entryId = NewEntryId, !.ts = now, !.prevHash = ""]]
       /\ nextId' = nextId + 1
  ELSE /\ req' = [req EXCEPT ![r] =
                    [locals EXCEPT !.pc = "serve", !.status = status, !.code = code,
                                   !.tenantID = tenantID]]
       /\ UNCHANGED nextId

\* generateCorrID(): the id drawn when the request brings none
generateCorrID == "generated"

VerifyKeyAlways(raw, k) == TRUE

\* hash.go VerifyKey(rawKey, key.KeyHash, cfg): the secret of key k is the number k
VerifyKey(raw, k) == raw = k

\* InMemoryAPIKeyStore.ValidateKey: the key the credential verifies against, 0 when
\* there is none or its tenant is unknown
ValidateKey(raw) ==
  LET matching == {k \in DOMAIN keys : VerifyKey(raw, k)} IN
  IF matching = {}
  THEN 0
  ELSE LET k == CHOOSE k \in matching : TRUE IN
       IF keys[k].tenantID \notin DOMAIN tenants THEN 0 ELSE k

\* Middleware lines 39-62: credential extraction and store.ValidateKey
ReqStart(r, raw, header) ==
  /\ UNCHANGED <<qvars, svars, ovars>>
  /\ req[r].pc = "idle"
  /\ audit => nextId + Cardinality(Unbuilt) < MaxEntries
  /\ LET locals == [IdleReq EXCEPT
                      !.raw = raw,
                      !.corrID = IF header = "" THEN generateCorrID ELSE header]
         k == ValidateKey(raw)
     IN IF raw = 0
        THEN Reject(r, locals, 401, "AUTH_REQUIRED", "", "auth.missing_key")
        ELSE IF k = 0
        THEN Reject(r, locals, 401, "INVALID_KEY", "", "auth.invalid_key")
        ELSE /\ req' = [req EXCEPT ![r] =
                          [locals EXCEPT !.pc = "checkTenant", !.keyID = k,
                                         !.tenantID = keys[k].tenantID, !.t0 = now,
                                         !.lateRevoked = k \in revokedOnce,
                                         !.lateExpired = k \in expiredOnce,
                                         !.suspended = tenants[keys[k].tenantID] # "active"]]
             /\ UNCHANGED nextId
  /\ UNCHANGED <<now, tenants, keys, entries, audit, revokedOnce, expiredOnce>>

tenantDeletedOnly(status) == status = "deleted"

\* Middleware line 65: tenant.Status != "active"
tenantInactive(status) == status # "active"

\* Middleware lines 64-69
CheckTenant(r) ==
  /\ UNCHANGED <<qvars, svars, ovars>>
  /\ req[r].pc = "checkTenant"
  /\ IF tenantInactive(tenants[req[r].tenantID])
     THEN Reject(r, req[r], 403, "TENANT_SUSPENDED", req[r].tenantID, "auth.tenant_suspended")
     ELSE /\ req' = [req EXCEPT ![r].pc = "checkExpiry"]
          /\ UNCHANGED nextId
  /\ UNCHANGED <<now, tenants, keys, entries, audit, revokedOnce, expiredOnce>>

\* Middleware lines 71-86
CheckExpiry(r) ==
  /\ UNCHANGED <<qvars, svars, ovars>>
  /\ req[r].pc = "checkExpiry"
  /\ IF gateExpired(keys[req[r].keyID], now)
     THEN Reject(r, req[r], 401, "KEY_EXPIRED", req[r].tenantID, "auth.key_expired")
     ELSE /\ req' = [req EXCEPT ![r].pc = "checkRevoked"]
          /\ UNCHANGED nextId
  /\ UNCHANGED <<now, tenants, keys, entries, audit, revokedOnce, expiredOnce>>

\* Middleware line 89: the revocation test
gateRevokedNever(key) == FALSE
gateRevoked(key) == key.revokedAt

\* Middleware lines 88-117: the revocation check, then the actor is built and
\* recordAuthSuccess builds its entry
gateRevocation(r) ==
  /\ req[r].pc = "checkRevoked"
  /\ IF gateRevoked(keys[req[r].keyID])
     THEN Reject(r, req[r], 401, "KEY_REVOKED", req[r].tenantID, "auth.key_revoked")
     ELSE IF enableAuditLog /\ audit
     THEN /\ req' = [req EXCEPT ![r] =
                       [@ EXCEPT !.pc = "last", !.status = 200, !.code = "",
                                 !.scopes = keys[req[r].keyID].scopes,
                                 !.action = "auth.success",
                                 !.entryId = NewEntryId, !.ts = now, !.prevHash = ""]]
          /\ nextId' = nextId + 1
     ELSE /\ req' = [req EXCEPT ![r] =
                       [@ EXCEPT !.pc = "serve", !.status = 200, !.code = "",
                                 !.scopes = keys[req[r].keyID].scopes]]
          /\ UNCHANGED nextId
  /\ UNCHANGED <<now, tenants, keys, entries, audit, revokedOnce, expiredOnce>>

\* the step seen without the last-used bookkeeping
CheckRevoked(r) ==
  /\ UNCHANGED <<qvars, svars, ovars>>
  /\ gateRevocation(r)

\* the same step with the goroutine of lines 104-113, started for an admitted request
CheckRevokedGo(r) ==
  /\ UNCHANGED <<qvars, svars, fvars, lvars, gvars, lastUsed, errLog>>
  /\ gateRevocation(r)
  /\ bg' = IF req'[r].status = 200 THEN [bg EXCEPT ![req[r].keyID] = @ + 1] ELSE bg

\* the detached goroutine runs store.UpdateLastUsed(keyID); an error is logged
UpdateLastUsed(k, fails) ==
  /\ UNCHANGED <<qvars, avars, svars, fvars, lvars, gvars>>
  /\ bg[k] > 0
  /\ bg' = [bg EXCEPT ![k] = @ - 1]
  /\ IF fails
     THEN /\ errLog' = errLog + 1
          /\ UNCHANGED lastUsed
     ELSE /\ lastUsed' = [lastUsed EXCEPT ![k] = now]
          /\ UNCHANGED errLog

\* InMemoryAuthAuditRecorder.Last and the prevHash the caller takes from its answer
lastHashNone(list) == ""
lastHash(list) == IF Len(list) = 0 THEN "" ELSE list[Len(list)].hash

\* the call of Last in recordAuthFailure / recordAuthSuccess
AuditLast(r) ==
  /\ UNCHANGED <<qvars, svars, ovars>>
  /\ req[r].pc = "last"
  /\ req' = [req EXCEPT ![r].pc = "record",
                        ![r].prevHash = lastHash(entries[req[r].tenantID])]
  /\ UNCHANGED <<now, tenants, keys, entries, nextId, audit, revokedOnce, expiredOnce>>

\* the AuditLogEntry the handler hands to Record
BuiltEntry(q) ==
  [id |-> q.entryId, tenantID |-> q.tenantID, corrID |-> q.corrID, action |-> q.action,
   keyID |-> IF q.action = "auth.success" THEN q.keyID ELSE 0,
   ts |-> q.ts, prevHash |-> q.prevHash,
   hash |-> ComputeAuditHash(q.prevHash,
                             AuditData(q.entryId, q.tenantID, q.action, q.ts, q.prevHash))]

\* a handler that answers 500 when Record fails
afterRecordChecked(q, failed) ==
  [q EXCEPT !.pc = "serve", !.action = "", !.entryId = "", !.ts = 0, !.prevHash = "",
            !.status = IF failed THEN 500 ELSE @,
            !.code = IF failed THEN "INTERNAL_ERROR" ELSE @]

\* middleware.go lines 244 / 272, _ = audit.Record(ctx, entry): the handler goes on
\* whatever Record returned
afterRecord(q, failed) ==
  [q EXCEPT !.pc = "serve", !.action = "", !.entryId = "", !.ts = 0, !.prevHash = ""]

\* InMemoryAuthAuditRecorder.Record
AuditRecord(r) ==
  /\ UNCHANGED <<qvars, svars, ovars>>
  /\ req[r].pc = "record"
  /\ entries' = [entries EXCEPT ![req[r].tenantID] = Append(@, BuiltEntry(req[r]))]
  /\ req' = [req EXCEPT ![r] = afterRecord(@, FALSE)]
  /\ UNCHANGED <<now, tenants, keys, nextId, audit, revokedOnce, expiredOnce>>

\* a recorder whose Last returns an error: entry.PrevHash keeps its zero value
AuditLastFails(r) ==
  /\ UNCHANGED <<qvars, svars, ovars>>
  /\ req[r].pc = "last"
  /\ req' = [req EXCEPT ![r].pc = "record"]
  /\ UNCHANGED <<now, tenants, keys, entries, nextId, audit, revokedOnce, expiredOnce>>

\* a recorder whose Record returns an error: nothing is appended
AuditRecordFails(r) ==
  /\ UNCHANGED <<qvars, svars, ovars>>
  /\ req[r].pc = "record"
  /\ req' = [req EXCEPT ![r] = afterRecord(@, TRUE)]
  /\ UNCHANGED <<now, tenants, keys, entries, nextId, audit, revokedOnce, expiredOnce>>

\* Middleware line 135: next.ServeHTTP is called for an admitted request with the
\* actor in its context (pc "next"); after a rejection the handler returns
Serve(r) ==
  /\ UNCHANGED <<qvars, svars, ovars>>
  /\ req[r].pc = "serve"
  /\ req' = [req EXCEPT ![r] = IF req[r].status = 200
                                THEN [@ EXCEPT !.pc = "next"]
                                ELSE IdleReq]
  /\ UNCHANGED <<now, tenants, keys, entries, nextId, audit, revokedOnce, expiredOnce>>

\* next.ServeHTTP returns, and with it the handler
Return(r) ==
  /\ UNCHANGED <<qvars, svars, ovars>>
  /\ req[r].pc = "next"
  /\ req' = [req EXCEPT ![r] = IdleReq]
  /\ UNCHANGED <<now, tenants, keys, entries, nextId, audit, revokedOnce, expiredOnce>>

\* the administrative calls on the tenants TS, creating keys with one of the
\* <<tenant, scopes>> pairs KS and no expiry (life 0) or, when withExpiry, possibly
\* an expiry one tick ahead
StoreStep(TS, KS, withExpiry) ==
  \/ \E t \in TS : CreateTenant(t)
  \/ \E t \in TS, st \in {"active", "suspended"} : UpdateTenantStatus(t, st)
  \/ \E kp \in KS, life \in (IF withExpiry THEN {0, 1} ELSE {0}) :
       CreateKey(kp[1], kp[2], IF life = 0 THEN NoTime ELSE now + life)
  \/ \E k \in 1..MaxKeys : RotateKey(k)
  \/ \E k \in 1..MaxKeys : RevokeKey(k)

\* a request arrives while no other is being served
ReqStartAlone(r, raw, header) ==
  /\ \A o \in Reqs \ {r} : req[o].pc = "idle"
  /\ ReqStart(r, raw, header)

\* the checks of the gate and its last step
GateStep(r) ==
  \/ CheckTenant(r)
  \/ CheckExpiry(r)
  \/ CheckRevoked(r)
  \/ Serve(r)
  \/ Return(r)

\* the calls on the recorder
AuditStep(r) ==
  \/ AuditLast(r)
  \/ AuditRecord(r)

\* the gate without a recorder, all administrative calls, the clock advancing,
\* one request at a time
ANext ==
  \/ Tick
  \/ StoreStep(AuthTenants, KeyInputs, TRUE)
  \/ \E r \in Reqs, raw \in 0..MaxKeys : ReqStartAlone(r, raw, "c1")
  \/ \E r \in Reqs : GateStep(r)

\* the gate with its recorder, requests served concurrently
JNext ==
  \/ StoreStep({"ta"}, {<<"ta", {"*"}>>}, FALSE)
  \/ \E r \in Reqs, raw \in 0..MaxKeys : ReqStart(r, raw, "c1")
  \/ \E r \in Reqs : GateStep(r)
  \/ \E r \in Reqs : AuditStep(r)

\* the gate with its recorder, one request at a time
JSeqNext ==
  \/ StoreStep({"ta"}, {<<"ta", {"*"}>>}, FALSE)
  \/ \E r \in Reqs, raw \in 0..MaxKeys : ReqStartAlone(r, raw, "c1")
  \/ \E r \in Reqs : GateStep(r)
  \/ \E r \in Reqs : AuditStep(r)

(***************************************************************************)
(* The export service: service.go and audit.go of package auditzip          *)
(***************************************************************************)

\* bound: the entries one tenant's export journal holds
MaxAuditLog == 3

\* the requests the service is sent: one enqueue body, two correlation ids
SvcInputs == {<<"t1", "k1", "h1">>}
CorrIds == {"c1", "c2"}

\* audit.go hashAudit: the hash covers corrId, tenant, actor, action, timestamp and
\* prevHash of the entry
hashAudit(entry) ==
  "sha256(" \o entry.corrID \o "|" \o entry.tenantID \o "|" \o entry.actor \o "|"
            \o entry.action \o "|" \o ToString(entry.ts) \o "|" \o entry.prevHash \o ")"

\* newID(): a fresh id
newID == "a" \o ToString(Len(auditLog["t1"]) + Len(auditLog["t2"]) + 1)

\* MemoryAuditRecorder.Last: the zero AuditLog for an empty list
Last(tenantID) ==
  IF Len(auditLog[tenantID]) = 0 THEN [hash |-> ""]
  ELSE auditLog[tenantID][Len(auditLog[tenantID])]

\* audit.go HashChain: link the entry to the tenant's last one, hash it, append it
HashChain(tenantID, entry) ==
  LET linked == [entry EXCEPT !.prevHash = Last(tenantID).hash]
      hashed == [linked EXCEPT !.hash = hashAudit(linked)]
  IN auditLog' = [auditLog EXCEPT ![hashed.tenantID] = Append(@, hashed)]

\* Service.appendAudit: nothing without a recorder
appendAudit(tenantID, corrID, action) ==
  IF ~hasRecorder THEN UNCHANGED auditLog
  ELSE HashChain(tenantID,
                 [auditID |-> newID, corrID |-> corrID, tenantID |-> tenantID,
                  actor |-> "system", action |-> action, ts |-> now,
                  prevHash |-> "", hash |-> ""])

\* the journal of the tenant has room for one more entry
auditRoom(tenantID) == hasRecorder => Len(auditLog[tenantID]) < MaxAuditLog

\* what a handler of the service answers: kind "job" carries decorateJob(job)
GotResp(op, t, id, kind, status, result, expiresAt, at) ==
  [op |-> op, tenant |-> t, jobId |-> id, kind |-> kind, status |-> status,
   result |-> result, expiresAt |-> expiresAt, at |-> at]

\* 404 NOT_FOUND
GotNotFound(op, t, id) == GotResp(op, t, id, "not-found", "nil", "nil", NoTime, NoTime)

\* 200 (or 202) with the job as it is written to the client at time now
GotJob(op, t, id, job) == GotResp(op, t, id, "job", job.status, job.result, job.expiresAt, now)

\* Service.EnqueueAuditZip for a request the limiter admits and ValidateRequest accepts
EnqueueAuditZip(t, k, h, corrID) ==
  /\ UNCHANGED <<avars, ovars, maxDepth, gc, writtenAt, hasRecorder>>
  /\ auditRoom(t)
  /\ JobQueueEnqueue(t, k, h)
  /\ IF resp'.kind = "ok"
     THEN /\ appendAudit(t, corrID, "audit.zip.create")
          /\ got' = GotJob("create", t, resp'.jobId, jobs'[resp'.jobId])
     ELSE /\ UNCHANGED auditLog
          /\ got' = GotResp("create", t, resp'.jobId, resp'.kind, "nil", "nil", NoTime, NoTime)

\* the same call on a recorder whose Append returns an error: HashChain hands the error
\* to appendAudit, and line 116 drops it
EnqueueAuditZipAppendFails(t, k, h, corrID) ==
  /\ UNCHANGED <<avars, ovars, maxDepth, gc, writtenAt, hasRecorder, auditLog>>
  /\ hasRecorder
  /\ JobQueueEnqueue(t, k, h)
  /\ got' = IF resp'.kind = "ok"
            THEN GotJob("create", t, resp'.jobId, jobs'[resp'.jobId])
            ELSE GotResp("create", t, resp'.jobId, resp'.kind, "nil", "nil", NoTime, NoTime)

\* a lookup that hands every job to every tenant
ownedByAnyone(job, tenantID) == TRUE

\* GetAuditZipJob line 129: the job belongs to the tenant of the request
ownedBy(job, tenantID) == job.tenantID = tenantID

\* Service.GetAuditZipJob without cancel: queue.Get, the tenant test, the audit entry
GetJob(t, jobID, corrID) ==
  /\ UNCHANGED <<avars, ovars, qvars, maxDepth, gc, writtenAt, hasRecorder>>
  /\ auditRoom(t)
  /\ IF jobID \notin DOMAIN jobs \/ ~ownedBy(jobs[jobID], t)
     THEN /\ got' = GotNotFound("get", t, jobID)
          /\ UNCHANGED auditLog
     ELSE /\ got' = GotJob("get", t, jobID, jobs[jobID])
          /\ appendAudit(t, corrID, "audit.zip.get")

\* Service.GetAuditZipJob with cancel=true: the same lookup, then queue.Cancel
CancelJob(t, jobID, corrID) ==
  /\ UNCHANGED <<avars, ovars, maxDepth, gc, writtenAt, hasRecorder>>
  /\ auditRoom(t)
  /\ IF jobID \notin DOMAIN jobs \/ ~ownedBy(jobs[jobID], t)
     THEN /\ got' = GotNotFound("cancel", t, jobID)
          /\ UNCHANGED <<qvars, auditLog>>
     ELSE /\ JobQueueCancel(t, jobID)
          /\ IF resp'.kind = "canceled"
             THEN /\ got' = GotJob("cancel", t, jobID, jobs'[jobID])
                  /\ appendAudit(t, corrID, "audit.zip.cancel")
             ELSE /\ got' = GotResp("cancel", t, jobID,
                                     IF resp'.kind = "not-cancelable" THEN "not-cancelable"
                                     ELSE "internal-error",
                                     "nil", "nil", NoTime, NoTime)
                  /\ UNCHANGED auditLog

\* persistArtifacts lines 249-259, the retention goroutine: its timer has fired and it
\* deletes the three objects of the job
DeleteArtifacts(j) ==
  /\ UNCHANGED <<avars, ovars, jobs, byKey, byCriteria, workerSlots, worker, ctxDone, resp>>
  /\ UNCHANGED <<maxDepth, writtenAt, got, auditLog, hasRecorder>>
  /\ \E d \in gc[j] :
       /\ d <= now
       /\ gc' = [gc EXCEPT ![j] = @ \ {d}]
  /\ objects' = [objects EXCEPT ![j] = {}]

\* the retention goroutine sees ctx.Done() and returns
RetentionCanceled(j) ==
  /\ UNCHANGED <<avars, ovars, qvars, maxDepth, writtenAt, got, auditLog, hasRecorder>>
  /\ j \in DOMAIN jobs
  /\ ctxDone[j]
  /\ \E d \in gc[j] : gc' = [gc EXCEPT ![j] = @ \ {d}]

\* no retention timer is due
TimersQuiet == \A j \in JobIds : \A d \in gc[j] : now < d

\* the clock of the service: a timer that is due fires before the clock moves on
ServiceTick ==
  /\ TimersQuiet
  /\ Tick

SNext ==
  \/ \E in \in SvcInputs, c \in CorrIds : EnqueueAuditZip(in[1], in[2], in[3], c)
  \/ \E t \in Tenants, id \in JobIds, c \in CorrIds : GetJob(t, id, c)
  \/ \E t \in Tenants, id \in JobIds, c \in CorrIds : CancelJob(t, id, c)
  \/ \E j \in JobIds : WorkerStep(j)
  \/ \E j \in JobIds : DeleteArtifacts(j)
  \/ \E j \in JobIds : RetentionCanceled(j)
  \/ ServiceTick

\* the service writing its journal: the requests of one tenant under one correlation id
EJNext ==
  \/ \E in \in SvcInputs : EnqueueAuditZip(in[1], in[2], in[3], "c1")
  \/ \E id \in JobIds : GetJob("t1", id, "c1")
  \/ \E id \in JobIds : CancelJob("t1", id, "c1")
  \/ \E j \in JobIds : WorkerStep(j)
  \/ \E j \in JobIds : DeleteArtifacts(j)
  \/ \E j \in JobIds : RetentionCanceled(j)
  \/ ServiceTick

(***************************************************************************)
(* Tenant onboarding: Handler.CreateTenant (auth/handler.go)               *)
(***************************************************************************)

\* domain.go AllScopes()
AllScopes ==
  {"audit:read", "audit:write", "invoice:read", "invoice:write", "admin:read", "admin:write"}

\* Handler.CreateTenant, lines 276-289: the tenant is built and store.CreateTenant
\* called; an existing id is answered 409 CONFLICT
OnboardCreateTenant(id) ==
  /\ UNCHANGED <<qvars, svars, fvars, lvars, uvars, enableAuditLog>>
  /\ onboard.pc \in {"idle", "done"}
  /\ IF id \in DOMAIN tenants
     THEN /\ onboard' = [pc |-> "done", id |-> id, status |-> 409]
          /\ UNCHANGED tenants
     ELSE /\ onboard' = [pc |-> "createKey", id |-> id, status |-> 0]
          /\ tenants' = (id :> "active") @@ tenants
  /\ UNCHANGED <<now, keys, entries, nextId, req, audit, revokedOnce, expiredOnce>>

\* Handler.CreateTenant, lines 291-318: store.CreateKey for the initial admin key;
\* keyFails stands for an error of GenerateAPIKey or HashKey inside CreateKey.  A
\* failure is answered 500 INTERNAL_ERROR, a success 201
OnboardCreateKey(keyFails) ==
  /\ UNCHANGED <<qvars, svars, fvars, lvars, uvars, enableAuditLog>>
  /\ onboard.pc = "createKey"
  /\ Len(keys) < MaxKeys
  /\ IF onboard.id \notin DOMAIN tenants \/ keyFails
     THEN /\ onboard' = [onboard EXCEPT !.pc = "done", !.status = 500]
          /\ UNCHANGED keys
     ELSE /\ onboard' = [onboard EXCEPT !.pc = "done", !.status = 201]
          /\ keys' = Append(keys, NewAPIKey(onboard.id, AllScopes, NoTime))
  /\ UNCHANGED <<now, tenants, entries, nextId, req, audit, revokedOnce, expiredOnce>>

\* tenants are onboarded while the administrative calls go on
ONext ==
  \/ \E id \in AuthTenants : OnboardCreateTenant(id)
  \/ \E keyFails \in BOOLEAN : OnboardCreateKey(keyFails)
  \/ StoreStep(AuthTenants, KeyInputs, FALSE)

\* the X-Correlation-Id headers requests come with, "" for none
CorrHeaders == {"", "c1"}

\* the keys created in front of the audited gate, in this order: different tenants
\* and scopes, the first key with or without an expiry one tick ahead
GateKeyInputs ==
  <<[tenantID |-> "ta", scopes |-> {"*"}, lives |-> {0, 1}],
    [tenantID |-> "tb", scopes |-> {"audit:read"}, lives |-> {0}]>>

\* the audited gate is followed up to this time and this number of journal entries
GateMaxTime == 2

GateMaxEntries == 2

\* the clock of the audited gate
GateTick == now < GateMaxTime /\ Tick

\* the i-th key is created
GateCreateKey(i, life) ==
  /\ i = Len(keys) + 1
  /\ life \in GateKeyInputs[i].lives
  /\ CreateKey(GateKeyInputs[i].tenantID, GateKeyInputs[i].scopes,
               IF life = 0 THEN NoTime ELSE now + life)

\* a request arrives at the idle handler
GateReqStart(raw, header) == nextId < GateMaxEntries /\ ReqStartAlone(1, raw, header)

\* the gate with its recorder and the clock, tenants and keys created, tenant ta
\* suspended and set active, keys expiring and revoked, requests with and without a correlation id served one at a
\* time by one handler
GNext ==
  \/ GateTick
  \/ \E t \in AuthTenants : CreateTenant(t)
  \/ \E st \in {"active", "suspended"} : UpdateTenantStatus("ta", st)
  \/ \E i \in DOMAIN GateKeyInputs, life \in {0, 1} : GateCreateKey(i, life)
  \/ \E k \in 1..MaxKeys : RevokeKey(k)
  \/ \E raw \in 0..MaxKeys, header \in CorrHeaders : GateReqStart(raw, header)
  \/ GateStep(1)
  \/ AuditStep(1)

\* the gate and the export service in front of a journal and a key store whose calls
\* may fail: one tenant, its keys, requests served one at a time, one export request
\* sent again and again while its job waits for a worker
FNext ==
  \/ CreateTenant("ta")
  \/ CreateKey("ta", {"*"}, NoTime)
  \/ \E k \in 1..MaxKeys : RevokeKey(k)
  \/ \E raw \in 0..MaxKeys : ReqStartAlone(1, raw, "c1")
  \/ CheckTenant(1)
  \/ CheckExpiry(1)
  \/ CheckRevokedGo(1)
  \/ Serve(1)
  \/ Return(1)
  \/ AuditLast(1)
  \/ AuditLastFails(1)
  \/ AuditRecord(1)
  \/ AuditRecordFails(1)
  \/ \E k \in 1..MaxKeys, fails \in BOOLEAN : UpdateLastUsed(k, fails)
  \/ \E in \in SvcInputs : EnqueueAuditZip(in[1], in[2], in[3], "c1")
  \/ \E in \in SvcInputs : EnqueueAuditZipAppendFails(in[1], in[2], in[3], "c1")

(***************************************************************************)
(* The scope check of a route (auth/middleware.go, auth/domain.go)         *)
(***************************************************************************)

\* the scopes actors are given and routes ask for
ScopeNames == {"audit:read", "audit:write", "admin:write", "*"}

RouteScopes == {"audit:read", "admin:write", "invoice:read"}

\* ActorFromContext: the actor Middleware has put into the context, if any
Actors == [ok : {TRUE}, scopes : SUBSET ScopeNames] \cup {[ok |-> FALSE, scopes |-> {}]}

HasScopeExact(scopes, scope) == scope \in scopes

\* Actor.HasScope: some scope of the actor is the asked one or the wildcard
HasScope(scopes, scope) == \E s \in scopes : s = scope \/ s = "*"

\* writeAuthError: the answer written; next tells whether the next handler was called
AuthError(fn, status, code, message, corrID) ==
  [fn |-> fn, next |-> FALSE, status |-> status, code |-> code, message |-> message,
   corrId |-> corrID, retryable |-> FALSE]

\* RequireScope(scope) applied to a request with the given actor and X-Correlation-Id
RequireScope(scope, actor, header) ==
  IF ~actor.ok
  THEN AuthError("RequireScope", 401, "AUTH_REQUIRED", "Authentication required", "")
  ELSE IF ~HasScope(actor.scopes, scope)
       THEN AuthError("RequireScope", 403, "INSUFFICIENT_SCOPE",
                      "Required scope: " \o scope, header)
       ELSE [fn |-> "RequireScope", next |-> TRUE, status |-> 0, code |-> "",
             message |-> "", corrId |-> "", retryable |-> FALSE]

RequireScopeArgs ==
  [fn : {"RequireScope"}, scope : RouteScopes, actor : Actors, header : CorrHeaders]

\* a request reaches a route guarded by RequireScope(arg.scope)
CallRequireScope ==
  /\ arg.fn = "RequireScope"
  /\ out = NoOut
  /\ out' = RequireScope(arg.scope, arg.actor, arg.header)
  /\ UNCHANGED <<qvars, avars, svars, lvars, gvars, uvars, arg>>

(***************************************************************************)
(* Key administration: Handler.RevokeAPIKey and Handler.RotateAPIKey       *)
(* (auth/handler.go) behind the gate                                       *)
(***************************************************************************)

\* bound: the keys ever created in front of the administration handlers
AdminMaxKeys == 3

\* the gate admits a request presenting key a now: the handler then finds the actor of
\* that key in the context
Admitted(a) ==
  /\ a \in DOMAIN keys
  /\ ~tenantInactive(tenants[keys[a].tenantID])
  /\ ~gateExpired(keys[a], now)
  /\ ~gateRevoked(keys[a])

\* a key is created for one of the tenants
AdminCreateKey(t, scopes) ==
  /\ UNCHANGED <<qvars, svars, ovars>>
  /\ t \in DOMAIN tenants
  /\ Len(keys) < AdminMaxKeys
  /\ keys' = Append(keys, NewAPIKey(t, scopes, NoTime))
  /\ UNCHANGED <<now, tenants, entries, nextId, req, audit, revokedOnce, expiredOnce>>

\* the call as the handler receives it: the actor of key a and the key id of the path
AdminCall(fn, a, keyID) ==
  [fn |-> fn, actor |-> a, tenantID |-> keys[a].tenantID, keyID |-> keyID]

\* what the handler answers; rawKey is the secret handed out, 0 for none
AdminAnswer(fn, status, code, rawKey) ==
  [fn |-> fn, status |-> status, code |-> code, rawKey |-> rawKey]

\* handler.go lines 191-194 / 221-224: the scope the two handlers ask for
adminAllowed(a) == HasScope(keys[a].scopes, "admin:write") \/ HasScope(keys[a].scopes, "*")

\* Handler.RevokeAPIKey called by the actor of key a for the key keyID
RevokeAPIKey(a, keyID) ==
  /\ UNCHANGED <<qvars, svars, lvars, gvars, uvars>>
  /\ Admitted(a)
  /\ arg' = AdminCall("RevokeAPIKey", a, keyID)
  /\ IF ~adminAllowed(a)
     THEN /\ out' = AdminAnswer("RevokeAPIKey", 403, "INSUFFICIENT_SCOPE", 0)
          /\ UNCHANGED <<keys, revokedOnce>>
     ELSE IF keyID \notin DOMAIN keys
     THEN /\ out' = AdminAnswer("RevokeAPIKey", 404, "NOT_FOUND", 0)
          /\ UNCHANGED <<keys, revokedOnce>>
     ELSE /\ keys' = [keys EXCEPT ![keyID].revokedAt = TRUE]
          /\ revokedOnce' = revokedOnce \cup {keyID}
          /\ out' = AdminAnswer("RevokeAPIKey", 204, "", 0)
  /\ UNCHANGED <<now, tenants, entries, nextId, req, audit, expiredOnce>>

\* Handler.RotateAPIKey called by the actor of key a for the key keyID; the new key
\* gets the next id and its secret goes into the answer
RotateAPIKey(a, keyID) ==
  /\ UNCHANGED <<qvars, svars, lvars, gvars, uvars>>
  /\ Admitted(a)
  /\ Len(keys) < AdminMaxKeys
  /\ arg' = AdminCall("RotateAPIKey", a, keyID)
  /\ IF ~adminAllowed(a)
     THEN /\ out' = AdminAnswer("RotateAPIKey", 403, "INSUFFICIENT_SCOPE", 0)
          /\ UNCHANGED keys
     ELSE IF keyID \notin DOMAIN keys \/ rotateRefused(keys[keyID])
     THEN /\ out' = AdminAnswer("RotateAPIKey", 404, "NOT_FOUND", 0)
          /\ UNCHANGED keys
     ELSE /\ keys' = Append([keys EXCEPT ![keyID] = markRotated(@, now)],
                            [NewAPIKey(keys[keyID].tenantID, keys[keyID].scopes, NoTime)
                               EXCEPT !.rotatedFrom = keyID])
          /\ out' = AdminAnswer("RotateAPIKey", 200, "", Len(keys) + 1)
  /\ UNCHANGED <<now, tenants, entries, nextId, req, audit, revokedOnce, expiredOnce>>

\* two tenants, an administrator's key and a reader's key for each, the clock, and the
\* administration requests of every admitted key on every key id
AdminNext ==
  \/ Tick
  \/ \E t \in AuthTenants : CreateTenant(t)
  \/ \E t \in AuthTenants, scopes \in {{"admin:write"}, {"audit:read"}} :
       AdminCreateKey(t, scopes)
  \/ \E a, keyID \in 1..AdminMaxKeys : RevokeAPIKey(a, keyID)
  \/ \E a, keyID \in 1..AdminMaxKeys : RotateAPIKey(a, keyID)

(***************************************************************************)
(* Validation of an export request (auditzip/validator.go)                 *)
(***************************************************************************)

\* dates are whole UTC days, numbered from 1; day 0 is the zero time.Time
MaxDay == 5

\* the values of cfg.MaxRangeDays tried, 0 switching the limit off
MaxRangeDaysTried == 3

EstimatedMBPerDay == 5

\* an optional field: <<>> for nil, <<v>> for a pointer to v
Optional(S) == {<<>>} \cup {<<v>> : v \in S}

\* the requests tried; partner is given by its length
ExportRequests ==
  [from : 0..MaxDay, to : 0..MaxDay, format : {"zip", "csv"},
   partner : Optional({140, 141}), minAmount : Optional({-1, 0, 2}),
   maxAmount : Optional({-1, 1})]

\* math.Ceil(float64(a) / float64(b)) for positive b
ceilDiv(a, b) == (a + b - 1) \div b

NoHint == [ok |-> FALSE, chunks |-> 0, approxSizeMB |-> 0]

withinRangeStrict(rangeDays, maxRangeDays) == rangeDays < maxRangeDays

\* splitHintIfNeeded, line 50: the range needs no split
withinRange(rangeDays, maxRangeDays) == rangeDays <= maxRangeDays

\* splitHintIfNeeded(from, to, cfg)
splitHintIfNeeded(from, to, maxRangeDays) ==
  LET rangeDays == (to - from) + 1
      chunks == ceilDiv(rangeDays, maxRangeDays)
  IN IF maxRangeDays = 0 \/ withinRange(rangeDays, maxRangeDays)
     THEN NoHint
     ELSE [ok |-> TRUE, chunks |-> chunks,
           approxSizeMB |-> ceilDiv(EstimatedMBPerDay * rangeDays, chunks)]

\* ValidateRequest, lines 19-36: the codes of the field checks that fail, in order
fieldErrors(r) ==
  (IF r.to < r.from THEN <<"AUDIT-REQ-004">> ELSE <<>>)
  \o (IF r.format # "zip" THEN <<"AUDIT-REQ-005">> ELSE <<>>)
  \o (IF r.partner # <<>> /\ r.partner[1] > 140 THEN <<"AUDIT-REQ-006">> ELSE <<>>)
  \o (IF r.minAmount # <<>> /\ r.minAmount[1] < 0 THEN <<"AUDIT-REQ-007">> ELSE <<>>)
  \o (IF r.maxAmount # <<>> /\ r.maxAmount[1] < 0 THEN <<"AUDIT-REQ-008">> ELSE <<>>)
  \o (IF r.minAmount # <<>> /\ r.maxAmount # <<>> /\ r.minAmount[1] > r.maxAmount[1]
      THEN <<"AUDIT-REQ-009">> ELSE <<>>)

\* ValidateRequest(req, cfg): the error codes and the split hint
ValidateRequest(r, maxRangeDays) ==
  IF r.from = 0 \/ r.to = 0
  THEN [fn |-> "ValidateRequest", errs |-> <<"AUDIT-REQ-001">>, hint |-> NoHint]
  ELSE IF Len(fieldErrors(r)) > 0
       THEN [fn |-> "ValidateRequest", errs |-> fieldErrors(r), hint |-> NoHint]
       ELSE [fn |-> "ValidateRequest", errs |-> <<>>,
             hint |-> splitHintIfNeeded(r.from, r.to, maxRangeDays)]

ValidateRequestArgs ==
  [fn : {"ValidateRequest"}, req : ExportRequests, maxRangeDays : 0..MaxRangeDaysTried]

\* the service validates an export request
CallValidateRequest ==
  /\ arg.fn = "ValidateRequest"
  /\ out = NoOut
  /\ out' = ValidateRequest(arg.req, arg.maxRangeDays)
  /\ UNCHANGED <<qvars, avars, svars, lvars, gvars, uvars, arg>>

(***************************************************************************)
(* The rate limiter of the auth package (package auth, type RateLimiter)   *)
(***************************************************************************)

\* Allow, line 49: int(float64(elapsed) / float64(rl.window) * float64(rl.rate))
refill(elapsed) == (elapsed * limiter.rate) \div limiter.window

freshTokensFull == limiter.rate

\* Allow, line 41: a new bucket starts with one token consumed
freshTokens == limiter.rate - 1

RefilledUncapped(key) ==
  LET bucket == limiter.buckets[key]
      n == refill(now - bucket.lastFill)
  IN IF n > 0
     THEN [bucket EXCEPT !.tokens = bucket.tokens + n, !.lastFill = now]
     ELSE bucket

\* the bucket of key after the refill of lines 51-54, if any
Refilled(key) ==
  LET bucket == limiter.buckets[key]
      n == refill(now - bucket.lastFill)
  IN IF n > 0
     THEN [bucket EXCEPT !.tokens = minInt(limiter.rate, bucket.tokens + n), !.lastFill = now]
     ELSE bucket

\* the history of key after one more call: ok tells whether the call was admitted
Counted(key, refilled, ok) ==
  [calls |-> minInt(MaxRate + 2, allowHist[key].calls + 1),
   refilled |-> allowHist[key].refilled \/ refilled,
   admitted |-> IF ok THEN Append(allowHist[key].admitted, now)
                ELSE allowHist[key].admitted]

\* rl.Allow(key)
Allow(key) ==
  /\ UNCHANGED <<qvars, avars, svars, fvars, gvars, uvars, lastReset>>
  /\ IF ~limiter.buckets[key].exists
     THEN /\ limiter' = [limiter EXCEPT !.buckets[key] =
                           [exists |-> TRUE, tokens |-> freshTokens, lastFill |-> now]]
          /\ allowed' = [key |-> key, ok |-> TRUE, retryAfter |-> 0]
          /\ allowHist' = [allowHist EXCEPT ![key] = Counted(key, FALSE, TRUE)]
     ELSE LET bucket == Refilled(key) IN
          /\ allowHist' = [allowHist EXCEPT
                             ![key] = Counted(key, bucket # limiter.buckets[key],
                                              bucket.tokens > 0)]
          /\ IF bucket.tokens > 0
             THEN /\ limiter' = [limiter EXCEPT
                                   !.buckets[key] = [bucket EXCEPT !.tokens = @ - 1]]
                  /\ allowed' = [key |-> key, ok |-> TRUE, retryAfter |-> 0]
             ELSE /\ limiter' = [limiter EXCEPT !.buckets[key] = bucket]
                  /\ allowed' = [key |-> key, ok |-> FALSE,
                                 retryAfter |-> limiter.window \div limiter.rate]

\* what is remembered of the bucket of key when Reset deletes it: that it had
\* admitted a call at this very time, if it had
Forgotten(key) ==
  IF \E i \in DOMAIN allowHist[key].admitted : allowHist[key].admitted[i] = now
  THEN [key |-> key, at |-> now]
  ELSE NoReset

\* rl.Reset(key)
Reset(key) ==
  /\ UNCHANGED <<qvars, avars, svars, fvars, gvars, uvars>>
  /\ limiter.buckets[key].exists
  /\ limiter' = [limiter EXCEPT !.buckets[key] = NoBucket]
  /\ allowHist' = [allowHist EXCEPT ![key] = NoCalls]
  /\ lastReset' = Forgotten(key)
  /\ UNCHANGED allowed

\* the callers of the limiter and the clock
LNext ==
  \/ \E key \in LimiterKeys : Allow(key)
  \/ \E key \in LimiterKeys : Reset(key)
  \/ Tick

(***************************************************************************)
(* Specifications                                                          *)
(***************************************************************************)

vars == <<qvars, avars, svars, ovars>>

\* no key has been used
UsageInit ==
  /\ lastUsed = [k \in 1..MaxKeys |-> NoTime]
  /\ bg = [k \in 1..MaxKeys |-> 0]
  /\ errLog = 0

\* the parts of the state the specification at hand does not move
OtherInit ==
  /\ arg = NoArg
  /\ out = NoOut
  /\ LimiterInit(1, 1)
  /\ enableAuditLog = TRUE
  /\ onboard = NoOnboarding
  /\ UsageInit

\* the state after construction, the gate having no recorder
Init ==
  /\ QueueInit
  /\ AuthInit(FALSE)
  /\ ServiceInit(MaxQueueDepth, FALSE)
  /\ OtherInit

\* the state after construction, the gate having a recorder
JournalInit ==
  /\ QueueInit
  /\ AuthInit(TRUE)
  /\ ServiceInit(MaxQueueDepth, FALSE)
  /\ OtherInit

\* the export-job queue
Spec == Init /\ [][QNext]_vars

\* the state after construction, the service having a recorder
ExportJournalInit ==
  /\ QueueInit
  /\ AuthInit(FALSE)
  /\ ServiceInit(MaxQueueDepth, TRUE)
  /\ OtherInit

\* a smaller cfg.MaxQueueDepth, below the number of jobs the queue is sent
ShallowDepth == 1

\* the state after construction with cfg.MaxQueueDepth = ShallowDepth
ShallowInit ==
  /\ QueueInit
  /\ AuthInit(FALSE)
  /\ ServiceInit(ShallowDepth, FALSE)
  /\ OtherInit

\* the export-job queue with the smaller depth
ShallowSpec == ShallowInit /\ [][QNext]_vars

\* the export service with its retention timers and its clock
ServiceSpec == Init /\ [][SNext]_vars

\* the export service writing its journal
ExportJournalSpec == ExportJournalInit /\ [][EJNext]_vars

\* a request with any actor at a route asking for any scope
ScopeInit ==
  /\ QueueInit
  /\ AuthInit(FALSE)
  /\ ServiceInit(MaxQueueDepth, FALSE)
  /\ arg \in RequireScopeArgs
  /\ out = NoOut
  /\ LimiterInit(1, 1)
  /\ enableAuditLog = TRUE
  /\ onboard = NoOnboarding
  /\ UsageInit

\* the scope check of a route
ScopeSpec == ScopeInit /\ [][CallRequireScope]_vars

\* any export request under any tried cfg.MaxRangeDays
ValidateInit ==
  /\ QueueInit
  /\ AuthInit(FALSE)
  /\ ServiceInit(MaxQueueDepth, FALSE)
  /\ arg \in ValidateRequestArgs
  /\ out = NoOut
  /\ LimiterInit(1, 1)
  /\ enableAuditLog = TRUE
  /\ onboard = NoOnboarding
  /\ UsageInit

\* the validation of an export request
ValidateSpec == ValidateInit /\ [][CallValidateRequest]_vars

\* a limiter of any rate and window tried
RateLimiterInit ==
  /\ QueueInit
  /\ AuthInit(FALSE)
  /\ ServiceInit(MaxQueueDepth, FALSE)
  /\ arg = NoArg
  /\ out = NoOut
  /\ \E ratePerWindow \in 1..MaxRate, window \in 1..MaxWindow :
       LimiterInit(ratePerWindow, window)
  /\ enableAuditLog = TRUE
  /\ onboard = NoOnboarding
  /\ UsageInit

\* the rate limiter
LimiterSpec == RateLimiterInit /\ [][LNext]_vars

\* the gate with a recorder, cfg.EnableAuditLog set either way
GateInit ==
  /\ QueueInit
  /\ AuthInit(TRUE)
  /\ ServiceInit(MaxQueueDepth, FALSE)
  /\ arg = NoArg
  /\ out = NoOut
  /\ LimiterInit(1, 1)
  /\ enableAuditLog \in BOOLEAN
  /\ onboard = NoOnboarding
  /\ UsageInit

\* the audited gate
GateSpec == GateInit /\ [][GNext]_vars

\* the state after construction, the gate and the service having a recorder each
FaultInit ==
  /\ QueueInit
  /\ AuthInit(TRUE)
  /\ ServiceInit(MaxQueueDepth, TRUE)
  /\ OtherInit

\* the gate and the export service with failing journal and last-used writes
FaultSpec == FaultInit /\ [][FNext]_vars

\* key administration behind the gate
AdminSpec == Init /\ [][AdminNext]_vars

\* tenant onboarding
OnboardSpec == Init /\ [][ONext]_vars

\* the key store and the auth gate
AuthSpec == Init /\ [][ANext]_vars

\* the auth gate writing its journal
JournalSpec == JournalInit /\ [][JNext]_vars

\* the same with requests served one after another
JournalSeqSpec == JournalInit /\ [][JSeqNext]_vars

(***************************************************************************)
(* Claims about the export-job queue (checked under Spec)                  *)
(***************************************************************************)

\* C1: once a job's status is succeeded, failed or canceled, no step of the queue
\* changes its status, result, error or finishedAt.
C1_TerminalImmutable ==
  [][\A j \in DOMAIN jobs :
       isTerminal(jobs[j].status) =>
         /\ jobs'[j].status = jobs[j].status
         /\ jobs'[j].result = jobs[j].result
         /\ jobs'[j].error = jobs[j].error
         /\ jobs'[j].finishedAt = jobs[j].finishedAt]_qvars

\* C2: at most one non-terminal job per (tenantId, criteriaHash) in every reachable state.
C2_OneActivePerCriteria ==
  \A j1, j2 \in DOMAIN jobs :
    (/\ j1 # j2
     /\ jobs[j1].tenantID = jobs[j2].tenantID
     /\ jobs[j1].criteriaHash = jobs[j2].criteriaHash)
    => (isTerminal(jobs[j1].status) \/ isTerminal(jobs[j2].status))

\* C3: for a fixed (tenantId, idempotencyKey, criteriaHash) at most one job is ever
\* created, and every accepted Enqueue call returns the id of that job, whose tenant,
\* idempotency key and criteria hash are those of the call.
C3_IdempotentEnqueue ==
  /\ \A j1, j2 \in DOMAIN jobs :
       (/\ jobs[j1].tenantID = jobs[j2].tenantID
        /\ jobs[j1].idempotencyKey = jobs[j2].idempotencyKey) => j1 = j2
  /\ (resp.op = "enqueue" /\ resp.kind = "ok") =>
       /\ resp.jobId \in DOMAIN jobs
       /\ jobs[resp.jobId].tenantID = resp.tenant
       /\ jobs[resp.jobId].idempotencyKey = resp.idem
       /\ jobs[resp.jobId].criteriaHash = resp.hash

\* an accepted replay: the call returned an existing job that was already terminal
C3_Witness ==
  /\ resp.op = "enqueue" /\ resp.kind = "ok"
  /\ resp.status = Succeeded
  /\ Len(jobs) = MaxJobs

\* the step is a call Enqueue(in) whose answer is resp'
EnqueueCalled(in) ==
  /\ resp' # resp
  /\ resp'.op = "enqueue"
  /\ resp'.tenant = in[1] /\ resp'.idem = in[2] /\ resp'.hash = in[3]

\* (tenantId, idempotencyKey) of the input is mapped to a job with another criteriaHash
BodyMismatch(in) ==
  /\ IndexKey(in[1], in[2]) \in DOMAIN byKey
  /\ jobs[byKey[IndexKey(in[1], in[2])]].criteriaHash # in[3]

\* C4 as stated: such a call always returns conflict idempotency-body-mismatch and
\* creates no job.
C4_MismatchAlways ==
  [][\A in \in EnqueueInputs :
       (EnqueueCalled(in) /\ BodyMismatch(in)) =>
         (resp'.kind = "idempotency-body-mismatch" /\ jobs' = jobs)]_qvars

\* C4 amended: such a call returns conflict idempotency-body-mismatch unless the queue
\* is at MAX_QUEUE_DEPTH, where it returns rate-limited; it never creates a job.
C4_MismatchUnlessFull ==
  [][\A in \in EnqueueInputs :
       (EnqueueCalled(in) /\ BodyMismatch(in)) =>
         /\ resp'.kind = IF queueFull THEN "rate-limited" ELSE "idempotency-body-mismatch"
         /\ jobs' = jobs /\ byKey' = byKey /\ byCriteria' = byCriteria]_qvars

\* a mismatch answered after the job registered under the key became terminal
C4_Witness ==
  /\ resp.op = "enqueue" /\ resp.kind = "idempotency-body-mismatch"
  /\ resp.jobId \in DOMAIN jobs
  /\ isTerminal(jobs[resp.jobId].status)

\* the input has an unused idempotency key and its criteria's current job is not terminal
DuplicateCriteria(in) ==
  /\ IndexKey(in[1], in[2]) \notin DOMAIN byKey
  /\ IndexKey(in[1], in[3]) \in DOMAIN byCriteria
  /\ ~isTerminal(jobs[byCriteria[IndexKey(in[1], in[3])]].status)

\* C5 as stated: such a call always returns conflict duplicate-job and creates no job.
C5_DuplicateAlways ==
  [][\A in \in EnqueueInputs :
       (EnqueueCalled(in) /\ DuplicateCriteria(in)) =>
         (resp'.kind = "duplicate-job" /\ jobs' = jobs)]_qvars

\* C5 amended: such a call returns conflict duplicate-job unless the queue is at
\* MAX_QUEUE_DEPTH, where it returns rate-limited; it never creates a job.
C5_DuplicateUnlessFull ==
  [][\A in \in EnqueueInputs :
       (EnqueueCalled(in) /\ DuplicateCriteria(in)) =>
         /\ resp'.kind = IF queueFull THEN "rate-limited" ELSE "duplicate-job"
         /\ jobs' = jobs /\ byKey' = byKey /\ byCriteria' = byCriteria]_qvars

\* a duplicate-job answer for a running job of the same criteria
C5_Witness ==
  /\ resp.op = "enqueue" /\ resp.kind = "duplicate-job"
  /\ resp.jobId \in DOMAIN jobs
  /\ jobs[resp.jobId].status = Running
  /\ jobs[resp.jobId].idempotencyKey # resp.idem

(***************************************************************************)
(* Claims about the key store and the auth gate (checked under AuthSpec)   *)
(***************************************************************************)

\* C6: a request presenting a key on which RevokeKey had completed when the request
\* arrived is never admitted, whatever RotateKey, CreateKey, UpdateTenantStatus or
\* further RevokeKey calls are made, and a revoked key stays revoked.
C6_RevokedNeverAdmitted ==
  /\ \A r \in Reqs : req[r].lateRevoked => req[r].status # 200
  /\ \A k \in revokedOnce : keys[k].revokedAt

\* a request with a key that was rotated and then revoked is answered KEY_REVOKED
C6_Witness ==
  \E r \in Reqs :
    /\ req[r].pc = "serve" /\ req[r].lateRevoked
    /\ req[r].status = 401 /\ req[r].code = "KEY_REVOKED"
    /\ keys[req[r].keyID].rotated

\* C7: a request presenting a key that had been expired (past its expiresAt and out of
\* any rotation grace) at some moment before the request arrived is never admitted,
\* whatever store operations are made, RotateKey on that key included.
C7_ExpiredNeverAdmitted ==
  \A r \in Reqs : req[r].lateExpired => req[r].status # 200

\* C8: after RotateKey(K1) at time t with grace G, the successor K2 carries the tenant
\* and the scopes of K1, and a request with K1 that arrives after t+G (the expiresAt
\* RotateKey wrote on K1) is rejected.
C8_GraceWindow ==
  /\ \A k2 \in DOMAIN keys :
       keys[k2].rotatedFrom # 0 =>
         /\ keys[k2].tenantID = keys[keys[k2].rotatedFrom].tenantID
         /\ keys[k2].scopes = keys[keys[k2].rotatedFrom].scopes
  /\ \A r \in Reqs :
       (/\ req[r].pc = "serve" /\ req[r].keyID # 0
        /\ keys[req[r].keyID].rotated
        /\ req[r].t0 > keys[req[r].keyID].expiresAt) => req[r].status # 200

(***************************************************************************)
(* Claims about the auth journal                                           *)
(***************************************************************************)

\* C9 (JournalSeqSpec): for every known tenant the entries appended one after another
\* form a chain: the first has prevHash "" and each later one has the hash of the entry
\* before it as prevHash.
C9_ChainLinear ==
  \A t \in AuthTenants :
    \A i \in 1..Len(entries[t]) :
      entries[t][i].prevHash = IF i = 1 THEN "" ELSE entries[t][i - 1].hash

\* a tenant's chain holds a rejection followed by a success
C9_Witness ==
  \E t \in AuthTenants :
    /\ Len(entries[t]) >= 2
    /\ entries[t][1].action # "auth.success"
    /\ entries[t][2].action = "auth.success"

\* C10 (JournalSpec): appends made for one tenant by requests served concurrently are
\* serialized: no two entries of a tenant share a prevHash.
C10_NoFork ==
  \A t \in AuthTenants :
    \A i, j \in 1..Len(entries[t]) :
      i # j => entries[t][i].prevHash # entries[t][j].prevHash

(***************************************************************************)
(* Claims about the export service                                         *)
(***************************************************************************)

\* a Cancel call has just answered
CancelCalled == resp' # resp /\ resp'.op = "cancel"

\* C13 (Spec): Cancel succeeds only on a running job: a job's context is canceled only
\* while the job is running, and the job is then canceled; a Cancel by the owner of a job
\* that is queued, succeeded, failed or canceled answers not-cancelable, and that answer
\* leaves the jobs, the worker contexts and the workers unchanged.
C13_CancelOnlyRunning ==
  [][/\ \A j \in DOMAIN jobs :
          (~ctxDone[j] /\ ctxDone'[j]) =>
            /\ jobs[j].status = Running
            /\ jobs'[j].status = Canceled
            /\ resp' = CancelResp(jobs[j].tenantID, j, "canceled", Canceled)
     /\ (CancelCalled /\ resp'.jobId \in DOMAIN jobs) =>
          LET job == jobs[resp'.jobId] IN
            /\ (job.tenantID = resp'.tenant /\ job.status # Running) =>
                   resp'.kind = "not-cancelable"
            /\ resp'.kind = "not-cancelable" =>
                   /\ job.status # Running
                   /\ UNCHANGED <<jobs, ctxDone, worker, workerSlots>>
            /\ resp'.kind = "canceled" => job.status = Running]_qvars

\* Cancel has refused a queued job and, earlier, canceled a running one
C13_Witness ==
  /\ resp.op = "cancel" /\ resp.kind = "not-cancelable" /\ resp.status = Queued
  /\ \E j \in DOMAIN jobs : ctxDone[j]

\* C14 (Spec): once Cancel has succeeded on a job (its context is canceled), the job
\* is in state canceled from then on: its worker neither completes it, nor fails it,
\* nor puts it back to running.
C14_CanceledStays ==
  \A j \in DOMAIN jobs : ctxDone[j] => jobs[j].status = Canceled

\* the jobs in state running
RunningJobs == {j \in DOMAIN jobs : jobs[j].status = Running}

\* C16 (Spec): at every moment at most MaxConcurrentJobs jobs are in state running.
C16_BoundedRunning == Cardinality(RunningJobs) <= MaxConcurrentJobs

\* C17 (Spec): a job becomes failed only when its retries are exhausted, retryCount
\* having reached MaxRetries, and then carries INTERNAL_ERROR and finishedAt.
C17_FailedAfterMaxRetries ==
  [][\A j \in DOMAIN jobs :
       (jobs[j].status # Failed /\ jobs'[j].status = Failed) =>
         /\ jobs'[j].retryCount = MaxRetries
         /\ jobs'[j].error = "INTERNAL_ERROR"
         /\ jobs'[j].finishedAt]_qvars

\* C19 (Spec): a job whose worker has returned is in a terminal state, so that no
\* job stays queued or running forever.
C19_WorkerEndsTerminal ==
  \A j \in DOMAIN jobs : worker[j].pc = "done" => isTerminal(jobs[j].status)

\* the hash of an entry as the auth journal computes it: ComputeAuditHash over AuditData
ContractHash(id, tenantID, action, ts, prevHash) ==
  ComputeAuditHash(prevHash, AuditData(id, tenantID, action, ts, prevHash))

\* every entry of the auth journal carries the prescribed hash
AuthEntriesHashed ==
  \A t \in AuthTenants :
    \A i \in 1..Len(entries[t]) :
      LET e == entries[t][i] IN
        e.hash = ContractHash(e.id, e.tenantID, e.action, e.ts, e.prevHash)

\* every entry of the export-service journal carries the prescribed hash
ExportEntriesHashed ==
  \A t \in Tenants :
    \A i \in 1..Len(auditLog[t]) :
      LET e == auditLog[t][i] IN
        e.hash = ContractHash(e.auditID, e.tenantID, e.action, e.ts, e.prevHash)

\* C11 (ExportJournalSpec): every committed audit entry, of the auth journal and of the
\* export-service journal, has hash = SHA-256(prevHash || id|tenant|action|ts|prevHash).
C11_EntriesHashed == AuthEntriesHashed /\ ExportEntriesHashed

\* C12 (ServiceSpec): a get or a cancel request for a job of another tenant is answered
\* not-found, with the very answer given for a job id that does not exist and with no
\* field of the job in it, and it changes nothing in the queue: the job is not canceled.
C12_ForeignNotFound ==
  [][\A t \in Tenants, id \in JobIds :
       (/\ got' # got
        /\ got'.op \in {"get", "cancel"} /\ got'.tenant = t /\ got'.jobId = id
        /\ (id \notin DOMAIN jobs \/ jobs[id].tenantID # t))
       => /\ got' = GotNotFound(got'.op, t, id)
          /\ UNCHANGED <<qvars, gc, auditLog>>]_vars

\* tenant t2 has asked to cancel the running job 1 of tenant t1 and got not-found
C12_Witness ==
  /\ got = GotNotFound("cancel", "t2", 1)
  /\ 1 \in DOMAIN jobs
  /\ jobs[1].tenantID = "t1"
  /\ jobs[1].status = Running

\* C18 (ServiceSpec): once the worker of a job has returned, whatever became of the job,
\* no artifact of the job is still stored when RetentionPeriod has elapsed since the
\* job's last artifact was written.
C18_RetentionHonored ==
  \A j \in DOMAIN jobs :
    (worker[j].pc = "done" /\ objects[j] # {}) => now <= writtenAt[j] + RetentionPeriod

\* C20 (ServiceSpec): a job read that answers with a signed URL is answered no later
\* than the expiresAt of that URL.
C20_NoExpiredURL ==
  (got.op = "get" /\ got.kind = "job" /\ got.result = "signed-url") => got.at <= got.expiresAt

\* C15 (ShallowSpec): with a positive cfg.MaxQueueDepth the number of non-terminal jobs
\* never exceeds it.
C15_DepthBounded == maxDepth > 0 => activeCountLocked <= maxDepth

\* C29 (Spec): a job's progress always lies in 0..100 and no step lowers it: not a
\* progress update with a value at most the current one, not a retry attempt, not Cancel.
C29_ProgressMonotonic ==
  /\ [](\A j \in DOMAIN jobs : jobs[j].progress \in 0..100)
  /\ [][\A j \in DOMAIN jobs : jobs'[j].progress >= jobs[j].progress]_qvars

\* the second attempt of a job has passed its first progress update (10) while the
\* progress reached by the first attempt (50 or more) stands
C29_Witness ==
  \E j \in DOMAIN jobs :
    /\ worker[j].attempt = 2
    /\ worker[j].pc = "wait"
    /\ jobs[j].progress >= 50

C21_RequireScope ==
  out.fn = "RequireScope" =>
    LET held == arg.actor.ok /\ (arg.scope \in arg.actor.scopes \/ "*" \in arg.actor.scopes)
    IN /\ out.next <=> held
       /\ ~arg.actor.ok =>
            /\ out.status = 401 /\ out.code = "AUTH_REQUIRED"
            /\ ~out.next
       /\ (arg.actor.ok /\ ~held) =>
            /\ out.status = 403 /\ out.code = "INSUFFICIENT_SCOPE"
            /\ out.message = "Required scope: " \o arg.scope
            /\ ~out.next

\* an actor holding only the wildcard has been let through to a route asking for
\* admin:write
C21_Witness ==
  /\ out.fn = "RequireScope" /\ out.next
  /\ arg.actor.scopes = {"*"} /\ arg.scope = "admin:write"

(***************************************************************************)
(* Claims about request validation (checked under ValidateSpec)            *)
(***************************************************************************)

AllowBeforeRefill(key) ==
  /\ allowHist'[key] # allowHist[key]
  /\ allowHist'[key].calls \in 1..(limiter.rate + 1)
  /\ ~allowHist'[key].refilled

\* what the claim says of such a call, but for the sign of the retry-after
AllowAnswer(key) ==
  /\ allowed'.key = key
  /\ allowHist'[key].calls <= limiter.rate =>
       allowed'.ok /\ allowed'.retryAfter = 0
  /\ allowHist'[key].calls = limiter.rate + 1 =>
       ~allowed'.ok /\ allowed'.retryAfter = limiter.window \div limiter.rate
  /\ \A other \in LimiterKeys \ {key} : limiter'.buckets[other] = limiter.buckets[other]

\* C27 as stated (LimiterSpec): the first rate calls Allow(k) on a fresh key made before
\* any refill are answered (true, 0), the next one (false, window / rate) with a positive
\* window / rate, and the buckets of the other keys are left alone.
C27_FirstCallsAllowed ==
  [][\A key \in LimiterKeys :
       AllowBeforeRefill(key) =>
         /\ AllowAnswer(key)
         /\ ~allowed'.ok => allowed'.retryAfter > 0]_lvars

\* C27 as amended (LimiterSpec): the same, the retry-after being the integer quotient of
\* window by rate in units of time.Duration, positive exactly when rate <= window.
C27_FirstCallsAllowedQuotient ==
  [][\A key \in LimiterKeys :
       AllowBeforeRefill(key) =>
         /\ AllowAnswer(key)
         /\ ~allowed'.ok => (allowed'.retryAfter > 0 <=> limiter.rate <= limiter.window)]_lvars

\* key k1 has used up a bucket of rate 2 and was then refused with a positive retry-after
\* while key k2 still holds a token
C27_Witness ==
  /\ limiter.rate = 2
  /\ allowed = [key |-> "k1", ok |-> FALSE, retryAfter |-> 1]
  /\ allowHist["k1"].calls = 3 /\ ~allowHist["k1"].refilled
  /\ limiter.buckets["k2"].exists /\ limiter.buckets["k2"].tokens > 0

(***************************************************************************)
(* Claims about the audited gate (checked under GateSpec)                  *)
(***************************************************************************)

\* C23 (GateSpec): a request presenting a key that was revoked, or expired outside
\* rotation grace, when the request arrived is answered 401 INVALID_KEY and audited
\* as auth.invalid_key under the empty tenant id.
C23_UnusableKeyInvalid ==
  \A r \in Reqs :
    (/\ req[r].pc \in {"last", "record", "serve"}
     /\ req[r].keyID # 0
     /\ (req[r].lateRevoked \/ req[r].lateExpired))
    => /\ req[r].status = 401 /\ req[r].code = "INVALID_KEY"
       /\ req[r].tenantID = ""
       /\ req[r].pc # "serve" => req[r].action = "auth.invalid_key"

\* the action tag that goes with an error code
FailureTag(code) ==
  CASE code = "AUTH_REQUIRED" -> "auth.missing_key"
    [] code = "INVALID_KEY" -> "auth.invalid_key"
    [] code = "TENANT_SUSPENDED" -> "auth.tenant_suspended"
    [] code = "KEY_EXPIRED" -> "auth.key_expired"
    [] code = "KEY_REVOKED" -> "auth.key_revoked"
    [] OTHER -> "none"

\* the handler has written an error answer
Rejected(q) == q.status \notin {0, 200}

C24_SuspendedTenantRefused ==
  /\ [](\A r \in Reqs :
          (req[r].suspended /\ req[r].pc # "checkTenant") =>
            /\ req[r].status = 403 /\ req[r].code = "TENANT_SUSPENDED"
            /\ req[r].pc \in {"last", "record", "serve"})
  /\ [][\A r \in Reqs :
          (req[r].suspended /\ req[r].pc # "serve" /\ req'[r].pc = "serve") =>
            LET t == keys[req[r].keyID].tenantID IN
              /\ Len(entries'[t]) = Len(entries[t]) + 1
              /\ entries'[t][Len(entries'[t])].action = "auth.tenant_suspended"
              /\ entries'[t][Len(entries'[t])].tenantID = t
              /\ entries'[t][Len(entries'[t])].corrID = req[r].corrID]_avars

\* the revoked key of the suspended tenant ta has been refused as suspended while
\* tenant tb is active, and the refusal is the newest entry of ta's chain
C24_Witness ==
  /\ req[1].suspended /\ req[1].pc = "serve" /\ req[1].keyID = 1
  /\ keys[1].revokedAt
  /\ tenants["ta"] = "suspended"
  /\ "tb" \in DOMAIN tenants /\ tenants["tb"] = "active"
  /\ Len(entries["ta"]) > 0
  /\ entries["ta"][Len(entries["ta"])].action = "auth.tenant_suspended"

\* C25 (GateSpec): a request that passes the gate is handed to the next handler, once,
\* with an actor whose tenant id, key id and scopes are those of the key whose secret the
\* request presented; with cfg.EnableAuditLog set, an auth.success entry with that key
\* id and the request's correlation id is appended to that tenant's chain before.
C25_ActorOfPresentedKey ==
  /\ [](\A r \in Reqs :
          req[r].pc = "next" =>
            /\ req[r].status = 200
            /\ req[r].raw \in DOMAIN keys
            /\ req[r].keyID = req[r].raw
            /\ req[r].tenantID = keys[req[r].raw].tenantID
            /\ req[r].scopes = keys[req[r].raw].scopes)
  /\ [][\A r \in Reqs :
          /\ (req'[r].pc = "next" /\ req[r].pc # "next") =>
               req[r].pc = "serve" /\ req[r].status = 200
          /\ req[r].pc = "next" => req'[r].pc \in {"next", "idle"}
          /\ (req[r].pc = "serve" /\ req[r].status = 200) => req'[r].pc \in {"serve", "next"}
          /\ (enableAuditLog /\ req'[r].status = 200 /\ req[r].status # 200) =>
               req'[r].pc = "last"
          /\ (req[r].status = 200 /\ req[r].pc # "serve" /\ req'[r].pc = "serve"
              /\ enableAuditLog) =>
               LET t == keys[req[r].raw].tenantID IN
                 /\ Len(entries'[t]) = Len(entries[t]) + 1
                 /\ entries'[t][Len(entries'[t])].action = "auth.success"
                 /\ entries'[t][Len(entries'[t])].keyID = req[r].raw
                 /\ entries'[t][Len(entries'[t])].corrID = req[r].corrID]_avars

\* the request that presented the second key is with the next handler, holding that
\* key's scope, and its auth.success entry closes the tenant's chain
C25_Witness ==
  /\ enableAuditLog
  /\ req[1].pc = "next" /\ req[1].raw = 2 /\ req[1].scopes = {"audit:read"}
  /\ req[1].tenantID = "tb"
  /\ Len(entries["tb"]) > 0
  /\ entries["tb"][Len(entries["tb"])].action = "auth.success"
  /\ entries["tb"][Len(entries["tb"])].keyID = 2

(***************************************************************************)
(* Claims about tenant onboarding (checked under OnboardSpec)              *)
(***************************************************************************)

\* C26 (OnboardSpec): when Handler.CreateTenant has returned for a new id, either the
\* tenant exists together with a key of it holding all canonical scopes, or neither the
\* tenant nor any key of it exists; and a call for an existing id is answered 409 and
\* changes neither tenants nor keys.
C26_OnboardingAtomic ==
  /\ [](onboard.pc = "done" /\ onboard.status # 409 =>
          \/ /\ onboard.id \in DOMAIN tenants
             /\ \E k \in DOMAIN keys :
                  keys[k].tenantID = onboard.id /\ keys[k].scopes = AllScopes
          \/ /\ onboard.id \notin DOMAIN tenants
             /\ \A k \in DOMAIN keys : keys[k].tenantID # onboard.id)
  /\ [][(onboard' # onboard /\ onboard'.status = 409) => UNCHANGED <<tenants, keys>>]_vars

(***************************************************************************)
(* Claims about the chain of the unknown tenant                            *)
(***************************************************************************)

\* C31 (JournalSeqSpec): the entries of requests whose tenant is unknown (missing
\* credential, invalid key) are committed under tenant "" and form a chain like any
\* other: the first has prevHash "" and each later one has the hash of the entry before
\* it as prevHash.
C31_UnknownTenantChain ==
  /\ \A i \in 1..Len(entries[""]) :
       /\ entries[""][i].tenantID = ""
       /\ entries[""][i].action \in {"auth.missing_key", "auth.invalid_key"}
       /\ entries[""][i].prevHash = IF i = 1 THEN "" ELSE entries[""][i - 1].hash
  /\ \A t \in AuthTenants :
       \A i \in 1..Len(entries[t]) :
         entries[t][i].action \notin {"auth.missing_key", "auth.invalid_key"}

(***************************************************************************)
(* Claims about cancellation during the retry backoff (checked under Spec) *)
(***************************************************************************)

\* C32 (Spec): when Cancel succeeds on a job whose worker is blocked in its retry
\* backoff, the job is canceled and stays as it is; the only step the worker takes from
\* there is to return, with no further attempt, releasing its slot; and the job never
\* changes after that.
C32_BackoffCancelAborts ==
  /\ [](\A j \in DOMAIN jobs :
          (worker[j].pc = "backoffWait" /\ ctxDone[j]) => jobs[j].status = Canceled)
  /\ [][\A j \in DOMAIN jobs :
          /\ (worker[j].pc = "backoffWait" /\ ctxDone[j]) =>
               /\ jobs'[j] = jobs[j]
               /\ worker'[j] # worker[j] =>
                    /\ worker'[j] = [worker[j] EXCEPT !.pc = "done"]
                    /\ workerSlots' = workerSlots - 1
          /\ (worker[j].pc = "done" /\ jobs[j].status = Canceled) =>
               /\ jobs'[j] = jobs[j]
               /\ worker'[j] = worker[j]]_qvars

\* Cancel has just succeeded on a job whose worker, its first attempt having failed, is
\* blocked in the backoff
C32_Witness ==
  /\ resp.op = "cancel" /\ resp.kind = "canceled"
  /\ resp.jobId \in DOMAIN jobs
  /\ worker[resp.jobId].pc = "backoffWait"
  /\ worker[resp.jobId].attempt = 1
  /\ ctxDone[resp.jobId]
  /\ jobs[resp.jobId].status = Canceled

(***************************************************************************)
(* Claims about failing journals and last-used writes (under FaultSpec)    *)
(***************************************************************************)

\* C33 (FaultSpec): a failing Last or Record of the auth journal, a failing Append of
\* the export journal and a failing UpdateLastUsed leave the outcome of the request as
\* it is: the answer the gate has decided on does not change while the entry is
\* written, an admitted request goes on to the next handler with the actor of its key,
\* the detached last-used write touches no request, and an accepted Enqueue is
\* answered with its job.
C33_FailuresDoNotFail ==
  /\ []((resp.op = "enqueue" /\ resp.kind = "ok") =>
          /\ got.op = "create" /\ got.kind = "job"
          /\ got.jobId = resp.jobId /\ got.status = resp.status)
  /\ [][/\ \A r \in Reqs :
             /\ req[r].pc \in {"last", "record"} =>
                  /\ req'[r].pc \in {"last", "record", "serve"}
                  /\ req'[r].status = req[r].status /\ req'[r].code = req[r].code
                  /\ req'[r].keyID = req[r].keyID /\ req'[r].scopes = req[r].scopes
             /\ (req[r].pc = "serve" /\ req[r].status = 200) =>
                  /\ req'[r].pc \in {"serve", "next"}
                  /\ req'[r].status = 200
                  /\ req'[r].keyID = req[r].raw /\ req'[r].scopes = keys[req[r].raw].scopes
             /\ (req[r].pc = "checkRevoked" /\ req'[r].pc # "checkRevoked"
                 /\ ~keys[req[r].keyID].revokedAt) =>
                  req'[r].status = 200 /\ req'[r].pc = "last"
        /\ (\E k \in 1..MaxKeys : bg'[k] < bg[k]) =>
             UNCHANGED <<req, resp, got, jobs, keys, tenants, entries, auditLog>>]_vars

\* the request is with the next handler although its auth.success entry was not
\* recorded and its last-used write failed and was logged, and the export request was
\* answered with its job although no entry of it was appended
C33_Witness ==
  /\ req[1].pc = "next" /\ req[1].status = 200
  /\ entries["ta"] = <<>>
  /\ errLog > 0 /\ lastUsed[req[1].keyID] = NoTime /\ bg[req[1].keyID] = 0
  /\ got.op = "create" /\ got.kind = "job"
  /\ auditLog["t1"] = <<>>

(***************************************************************************)
(* Claims about key administration (checked under AdminSpec)               *)
(***************************************************************************)

\* C34 (AdminSpec): a revoke or rotate request of a principal of one tenant never sets
\* revokedAt, the rotation flag or expiresAt on a key of another tenant, and the secret
\* a rotation hands out is never that of another tenant's key.
C34_AdminTenantIsolation ==
  /\ []((out.fn = "RotateAPIKey" /\ out.rawKey # 0) =>
          keys[out.rawKey].tenantID = arg.tenantID)
  /\ [][arg'.fn \in {"RevokeAPIKey", "RotateAPIKey"} =>
          \A k \in DOMAIN keys :
            keys[k].tenantID # arg'.tenantID =>
              /\ keys'[k].revokedAt = keys[k].revokedAt
              /\ keys'[k].rotated = keys[k].rotated
              /\ keys'[k].expiresAt = keys[k].expiresAt]_vars

(***************************************************************************)
(* Claims about the order of the gate's checks (checked under GateSpec)    *)
(***************************************************************************)

\* the handler r leaves the check at
Leaves(r, at) == req[r].pc = at /\ req'[r].pc # at

\* the handler r has got the answer and the audit action of a rejection
Refused(r, status, code, action) ==
  /\ req'[r].status = status /\ req'[r].code = code /\ req'[r].action = action
  /\ req'[r].pc \in {"last", "record"}

C36_JobRecordConsistent ==
  \A j \in DOMAIN jobs :
    /\ jobs[j].canCancel <=> jobs[j].status = Running
    /\ jobs[j].finishedAt <=> isTerminal(jobs[j].status)
    /\ jobs[j].result # "nil" <=> jobs[j].status = Succeeded
    /\ jobs[j].error # "nil" <=> jobs[j].status \in {Failed, Canceled}

(***************************************************************************)
(* Claims about the order of the checks of Enqueue (checked under Spec)    *)
(***************************************************************************)

\* the input repeats the (tenantId, idempotencyKey, criteriaHash) of an accepted job
Replay(in) ==
  /\ IndexKey(in[1], in[2]) \in DOMAIN byKey
  /\ jobs[byKey[IndexKey(in[1], in[2])]].criteriaHash = in[3]
  /\ jobs[byKey[IndexKey(in[1], in[2])]].tenantID = in[1]

\* C37 (Spec): the queue-depth check comes before the idempotency lookup: an Enqueue
\* that repeats an accepted (tenantId, idempotencyKey, criteriaHash) is answered
\* rate-limited while the number of non-terminal jobs is at MAX_QUEUE_DEPTH, and with
\* the existing job as soon as the number is below it; neither answer creates a job.
C37_DepthBeforeReplay ==
  [][\A in \in EnqueueInputs :
       (EnqueueCalled(in) /\ Replay(in)) =>
         /\ IF maxDepth > 0
               /\ Cardinality({j \in DOMAIN jobs : ~isTerminal(jobs[j].status)}) >= maxDepth
            THEN resp'.kind = "rate-limited"
            ELSE /\ resp'.kind = "ok"
                 /\ resp'.jobId = byKey[IndexKey(in[1], in[2])]
                 /\ resp'.status = jobs[resp'.jobId].status
         /\ jobs' = jobs /\ byKey' = byKey /\ byCriteria' = byCriteria]_qvars

\* the repeat of the request of a job that is still waiting has been answered
\* rate-limited, the queue holding MAX_QUEUE_DEPTH jobs that are not terminal
C37_Witness ==
  /\ resp.op = "enqueue" /\ resp.kind = "rate-limited"
  /\ Replay(<<resp.tenant, resp.idem, resp.hash>>)
  /\ ~isTerminal(jobs[byKey[IndexKey(resp.tenant, resp.idem)]].status)
  /\ activeCountLocked = MaxQueueDepth

\* the input has an idempotency key the tenant has not used and the job registered for
\* its criteria is terminal
TerminalCriteria(in) ==
  /\ IndexKey(in[1], in[2]) \notin DOMAIN byKey
  /\ IndexKey(in[1], in[3]) \in DOMAIN byCriteria
  /\ isTerminal(jobs[byCriteria[IndexKey(in[1], in[3])]].status)

\* the input has an idempotency key the tenant has not used and the job registered for
\* its criteria has reached a terminal state (finishedAt is set then and never cleared)
FinishedCriteria(in) ==
  /\ IndexKey(in[1], in[2]) \notin DOMAIN byKey
  /\ IndexKey(in[1], in[3]) \in DOMAIN byCriteria
  /\ jobs[byCriteria[IndexKey(in[1], in[3])]].finishedAt

\* C38 (Spec): once the job registered for a (tenantId, criteriaHash) has become
\* terminal, every Enqueue with these criteria and an idempotency key the tenant has
\* not used is accepted, the queue depth permitting, and creates a new queued job.
C38_ReenqueueAfterTerminal ==
  [][\A in \in EnqueueInputs :
       (EnqueueCalled(in) /\ FinishedCriteria(in)) =>
         \/ resp'.kind = "rate-limited"
         \/ /\ resp'.kind = "ok"
            /\ resp'.jobId \notin DOMAIN jobs
            /\ jobs'[resp'.jobId].status = Queued]_qvars

\* C38 with the state of the registered job taken at the moment of the call (Spec): when
\* the job registered for a (tenantId, criteriaHash) is terminal, an
\* Enqueue with these criteria and an idempotency key the tenant has not used is
\* accepted unless the queue is at MAX_QUEUE_DEPTH: it creates a queued job with a
\* fresh id, progress 0, retryCount 0 and canCancel false, and registers it under the
\* idempotency key and under the criteria, where it replaces the terminal job; the
\* job registered for a criteria key is always the newest one created for it.
C38_ReenqueueWhileTerminal ==
  /\ [](\A ck \in DOMAIN byCriteria :
          \A j \in DOMAIN jobs :
            IndexKey(jobs[j].tenantID, jobs[j].criteriaHash) = ck => j <= byCriteria[ck])
  /\ [][\A in \in EnqueueInputs :
          (EnqueueCalled(in) /\ TerminalCriteria(in)) =>
            IF maxDepth > 0
               /\ Cardinality({j \in DOMAIN jobs : ~isTerminal(jobs[j].status)}) >= maxDepth
            THEN resp'.kind = "rate-limited" /\ jobs' = jobs
            ELSE LET id == resp'.jobId IN
                 /\ resp'.kind = "ok" /\ resp'.status = Queued
                 /\ id \notin DOMAIN jobs /\ DOMAIN jobs' = DOMAIN jobs \cup {id}
                 /\ \A j \in DOMAIN jobs : jobs'[j] = jobs[j]
                 /\ jobs'[id].status = Queued /\ jobs'[id].progress = 0
                 /\ jobs'[id].retryCount = 0 /\ jobs'[id].canCancel = FALSE
                 /\ jobs'[id].tenantID = in[1] /\ jobs'[id].idempotencyKey = in[2]
                 /\ jobs'[id].criteriaHash = in[3]
                 /\ byKey'[IndexKey(in[1], in[2])] = id
                 /\ byCriteria'[IndexKey(in[1], in[3])] = id
                 /\ worker'[id].pc = "slot"]_qvars

\* the second job has just been created, under another idempotency key, for the
\* criteria of the first, which has succeeded; it is the job registered for the criteria
C38_Witness ==
  /\ Len(jobs) = 2
  /\ jobs[1].tenantID = jobs[2].tenantID /\ jobs[1].criteriaHash = jobs[2].criteriaHash
  /\ jobs[1].idempotencyKey # jobs[2].idempotencyKey
  /\ jobs[1].status = Succeeded /\ jobs[2].status = Queued
  /\ resp = EnqueueResp(jobs[2].tenantID, jobs[2].idempotencyKey, jobs[2].criteriaHash,
                        "ok", 2, Queued)
  /\ byCriteria[IndexKey(jobs[2].tenantID, jobs[2].criteriaHash)] = 2

(***************************************************************************)
(* Claims about the admissions of the rate limiter (checked under          *)
(* LimiterSpec)                                                            *)
(***************************************************************************)

\* the calls Allow(key) the present bucket of key admitted at the times from..to
AdmittedIn(key, from, to) ==
  Cardinality({i \in DOMAIN allowHist[key].admitted :
                 allowHist[key].admitted[i] \in from..to})

\* one more, if the last Reset deleted a bucket of key that had admitted a call at a
\* time within from..to
AdmittedEarlier(key, from, to) ==
  IF lastReset.key = key /\ lastReset.at \in from..to THEN 1 ELSE 0

\* rate + floor(T * rate / window)
SpanLimit(T) == limiter.rate + (T * limiter.rate) \div limiter.window

\* the token count of every bucket is within 0..rate
TokensWithinCapacity ==
  \A key \in LimiterKeys :
    limiter.buckets[key].exists => limiter.buckets[key].tokens \in 0..limiter.rate

EnqueueWithoutJob(in) ==
  /\ EnqueueCalled(in)
  /\ \/ resp'.kind \in {"rate-limited", "idempotency-body-mismatch", "duplicate-job"}
     \/ resp'.kind = "ok" /\ Replay(in)

\* C40 (Spec): an Enqueue that creates no job (rate-limited, idempotency-body-mismatch,
\* duplicate-job or idempotent replay) leaves the job map and both indexes unchanged,
\* changes no field of an existing job and starts no worker.
C40_RefusedEnqueueFrame ==
  [][\A in \in EnqueueInputs :
       EnqueueWithoutJob(in) =>
         /\ jobs' = jobs
         /\ byKey' = byKey
         /\ byCriteria' = byCriteria
         /\ worker' = worker /\ workerSlots' = workerSlots /\ ctxDone' = ctxDone]_qvars

\* an Enqueue reusing the idempotency key of the only job, which is running, for other
\* criteria has been answered idempotency-body-mismatch: there is still one job, one
\* entry in each index and one worker
C40_Witness ==
  /\ resp.op = "enqueue" /\ resp.kind = "idempotency-body-mismatch"
  /\ Len(jobs) = 1 /\ jobs[1].status = Running
  /\ resp.jobId = 1 /\ resp.hash # jobs[1].criteriaHash
  /\ DOMAIN byKey = {IndexKey(resp.tenant, resp.idem)}
  /\ Cardinality(DOMAIN byCriteria) = 1
  /\ Len(worker) = 1

====
